---- MODULE Spec2Model ----
(***************************************************************************)
(* Herald: the speech-session orchestrator.                                *)
(*                                                                         *)
(*   src/src/main.py        line queue, hotkey handlers, tick loop         *)
(*   src/src/tts_engine.py  Pyttsx3Engine / EdgeTTSEngine, prefetch cache  *)
(*   src/src/config.py      rate limits, settings store                    *)
(*   src/src/persistent_region.py  region overlay, auto-read poll loop     *)
(*   src/src/region_capture.py     the region picker                       *)
(*   src/src/text_filter.py        line filter, normalize_for_speech       *)
(*                                                                         *)
(* Every function of the code is an operator from a program state (a       *)
(* record of all the fields below) to the program state after the call;    *)
(* an action applies one operator to the current state.  The code of a     *)
(* thread is cut into statement groups; each specification below says how  *)
(* finely it interleaves them.                                             *)
(***************************************************************************)
EXTENDS Integers, Sequences, FiniteSets, TLC

VARIABLES
    \* main.py globals
    line_queue,            \* _line_queue: list of lines
    current_line_index,    \* _current_line_index
    was_speaking,          \* _was_speaking
    read_mode,             \* _read_mode: "lines" / "continuous"
    \* tts_engine.py: the engine singleton
    engine_kind,           \* "edge" (EdgeTTSEngine) / "pyttsx3" (Pyttsx3Engine)
    generating,            \* EdgeTTSEngine._generating
    speaking,              \* _speaking
    paused,                \* _paused
    stop_requested,        \* EdgeTTSEngine._stop_requested
    audio_file,            \* EdgeTTSEngine._audio_file (None or a file)
    file_counter,          \* EdgeTTSEngine._file_counter
    prefetch_cache,        \* EdgeTTSEngine._prefetch_cache, in dict order
    py_engine,             \* Pyttsx3Engine._engine (None or the SAPI driver)
    rate,                  \* _rate
    settings_rate,         \* settings.json, key "rate"
    voice_name,            \* _voice_name
    settings_voice,        \* settings.json, key "voice"
    \* persistent_region.py
    pr,                    \* the PersistentRegion object, its poll threads and
                           \* the overlay processes
    \* text_filter.py
    tf,                    \* a text and what normalize_for_speech returned for it
    \* environment
    files,                 \* the audio files that exist in temp/
    mixer,                 \* pygame.mixer.music
    \* threads
    workers,               \* the _speak_thread threads, in start order
    prefetchers,           \* the live _prefetch_thread threads
    clipboard,             \* the text get_content_to_speak returns (copied or OCR)
    hk,                    \* the hotkey thread: position in its handler
    tk,                    \* the main thread: position in update_tray_state
    mx,                    \* the _mixer_lock of every EdgeTTSEngine built, and the
                           \* threads on their way through the calls of the player
    \* tray_app.py
    tray,                  \* _tray_app: None, or <<the TrayApp object>>
    \* history
    h_spoken,              \* the texts handed to engine.speak() since the last
                           \* on_speak_hotkey, Off once another key than next came
    h_stopped,             \* stop() returned and speak() was not called since
    h_inserted,            \* prefetch cache key -> ordinal of its insertion
    h_asked                \* the value last assigned to rate: <<>> or <<v>>

vars == <<line_queue, current_line_index, was_speaking, read_mode, engine_kind,
          generating, speaking, paused, stop_requested, audio_file,
          file_counter, prefetch_cache, py_engine, rate, settings_rate,
          voice_name, settings_voice, pr, tf, files, mixer, workers, prefetchers, clipboard, hk, tk,
          mx, tray, h_spoken, h_stopped, h_inserted, h_asked>>

----------------------------------------------------------------------------
(* Bounds of the model *)

\* longest raw text handed to on_speak_hotkey
MaxTextLen == 4

\* number of engine.speak() worker threads started in one behaviour
MaxSpeaks == 2
MaxFailSpeaks == 2
\* calls of speak in one behaviour of the rate modifier specification
MaxModifierSpeaks == 1
\* exceptions raised inside the iterations of the auto-read loop
MaxErrors == 2
\* EdgeTTSEngine objects built in one behaviour of the mixer lock specification
MaxEngines == 2

\* length of the clipboard texts of the line-filter specification
MaxFilterLen == 3

\* length of the texts given to normalize_for_speech
MaxNormLen == 4

\* audio files generated in one behaviour of the cache specification
MaxFiles == 12

\* engine.speak() calls in one behaviour of the hotkey-thread specification
MaxKeySpeaks == 3

\* rates tried this far below and above MIN_RATE and MAX_RATE
RateMargin == 30

\* prefetch threads alive at the same time in the cache specification
MaxPending == 2

\* the cache specification fills the cache up to this many entries with one
\* prefetch at a time, and explores concurrent prefetches and stop() from there
WarmEntries == 8

\* invocations of on_text_detected in one behaviour
MaxPolls == 2

\* auto-read threads started in one behaviour
MaxRegionThreads == 2

\* overlay processes started in one behaviour
MaxOverlays == 2

(* Program constants *)

DEFAULT_RATE == 900

MIN_RATE == 150

MAX_RATE == 1500

RATE_STEP == 25

prefetch_cache_max_size == 10

\* Python's None, for a file path or the SAPI driver
None == <<>>

----------------------------------------------------------------------------
(* Text: a sequence of characters *)

Alphabet == {"a", "b", " ", "\n"}

RECURSIVE TextsUpTo(_)
TextsUpTo(n) ==
    IF n = 0 THEN {<<>>}
    ELSE LET shorter == TextsUpTo(n - 1)
         IN  shorter \cup {Append(t, c) : t \in {u \in shorter : Len(u) = n - 1}, c \in Alphabet}

RawTexts == TextsUpTo(MaxTextLen)

\* str.strip() removes leading and trailing whitespace
IsSpace(c) == c \in {" ", "\n"}

RECURSIVE lstrip(_)
lstrip(s) == IF s # <<>> /\ IsSpace(Head(s)) THEN lstrip(Tail(s)) ELSE s

RECURSIVE rstrip(_)
rstrip(s) == IF s # <<>> /\ IsSpace(s[Len(s)]) THEN rstrip(SubSeq(s, 1, Len(s) - 1)) ELSE s

\* a strip that forgets the right-hand side
strip_left_only(s) == lstrip(s)

strip(s) == rstrip(lstrip(s))

\* text.split('\n'): the segments between line feeds, empty ones included
RECURSIVE split_from(_, _)
split_from(s, cur) ==
    IF s = <<>> THEN <<cur>>
    ELSE IF Head(s) = "\n" THEN <<cur>> \o split_from(Tail(s), <<>>)
    ELSE split_from(Tail(s), Append(cur, Head(s)))

split(s) == split_from(s, <<>>)

MapStrip(ls) == [i \in 1..Len(ls) |-> strip(ls[i])]

NonEmpty(l) == l # <<>>

\* [line.strip() for line in text.split('\n') if line.strip()]
queue_lines(text) == SelectSeq(MapStrip(split(text)), NonEmpty)

\* hashlib.md5(text.encode()).hexdigest()[:12]: a key determined by the text
\* (digest collisions are not modelled)
get_text_hash(text) == <<"md5", text>>

----------------------------------------------------------------------------
(* The program state as one record *)

St ==
    [line_queue |-> line_queue, current_line_index |-> current_line_index,
     was_speaking |-> was_speaking, read_mode |-> read_mode,
     engine_kind |-> engine_kind, generating |-> generating,
     speaking |-> speaking, paused |-> paused,
     stop_requested |-> stop_requested, audio_file |-> audio_file,
     file_counter |-> file_counter, prefetch_cache |-> prefetch_cache,
     py_engine |-> py_engine, rate |-> rate, settings_rate |-> settings_rate,
     voice_name |-> voice_name, settings_voice |-> settings_voice, pr |-> pr, tf |-> tf,
     files |-> files, mixer |-> mixer, workers |-> workers,
     prefetchers |-> prefetchers, clipboard |-> clipboard,
     hk |-> hk, tk |-> tk, mx |-> mx, tray |-> tray, h_spoken |-> h_spoken,
     h_stopped |-> h_stopped, h_inserted |-> h_inserted, h_asked |-> h_asked]

\* the step to state s
Apply(s) ==
    /\ line_queue' = s.line_queue
    /\ current_line_index' = s.current_line_index
    /\ was_speaking' = s.was_speaking
    /\ read_mode' = s.read_mode
    /\ engine_kind' = s.engine_kind
    /\ generating' = s.generating
    /\ speaking' = s.speaking
    /\ paused' = s.paused
    /\ stop_requested' = s.stop_requested
    /\ audio_file' = s.audio_file
    /\ file_counter' = s.file_counter
    /\ prefetch_cache' = s.prefetch_cache
    /\ py_engine' = s.py_engine
    /\ rate' = s.rate
    /\ settings_rate' = s.settings_rate
    /\ voice_name' = s.voice_name
    /\ settings_voice' = s.settings_voice
    /\ pr' = s.pr
    /\ tf' = s.tf
    /\ tray' = s.tray
    /\ mx' = s.mx
    /\ files' = s.files
    /\ mixer' = s.mixer
    /\ workers' = s.workers
    /\ prefetchers' = s.prefetchers
    /\ clipboard' = s.clipboard
    /\ hk' = s.hk
    /\ tk' = s.tk
    /\ h_spoken' = s.h_spoken
    /\ h_stopped' = s.h_stopped
    /\ h_inserted' = s.h_inserted
    /\ h_asked' = s.h_asked

\* a _speak_thread: its position, text and audio_file, and as history
\*   superseded  the position it was at when a later speak() was called ("no": none was)
\*   stale_play  it loaded and played its audio after that
\*   prefetched  the cache held its text, with the file, when its line became current
\*   generated   it ran generation
\*   failed      the file of its generation, when the generation failed
\*   notices     the number of its calls of _speak_error
\* and its local variable rate, the modifier handed to edge-tts ("": not set)
IdleWorker == [pc |-> "idle", text |-> <<>>, file |-> None, superseded |-> "no",
               stale_play |-> FALSE, prefetched |-> FALSE, generated |-> FALSE,
               failed |-> None, notices |-> 0, rate |-> ""]

\* the sequence q without its element i
RemoveAt(q, i) == [j \in 1..(Len(q) - 1) |-> IF j < i THEN q[j] ELSE q[j + 1]]

MixerIdle == [loaded |-> None, playing |-> FALSE, paused |-> FALSE]

IsEdge(s) == s.engine_kind = "edge"

\* the log of spoken texts is kept only by the specification that reads it
Off == << <<"off">> >>

----------------------------------------------------------------------------
(* tts_engine.py: EdgeTTSEngine, files and prefetch cache *)

\* the cache is a sequence of [key, file] entries, in dict order
InCache(cache, key) == \E i \in 1..Len(cache) : cache[i].key = key

CacheIndex(cache, key) == CHOOSE i \in 1..Len(cache) : cache[i].key = key

CacheFiles(cache) == {cache[i].file : i \in 1..Len(cache)}

Without(cache, key) == SelectSeq(cache, LAMBDA e : e.key # key)

\* _cleanup_file: os.remove when the path exists
cleanup_file(s, f) == [s EXCEPT !.files = @ \ {f}]

\* _cleanup_audio: under the mixer lock, stop and unload the player and remove
\* self._audio_file, when that file exists
cleanup_audio(s) ==
    IF s.audio_file # None /\ s.audio_file \in s.files
    THEN [s EXCEPT !.mixer = MixerIdle,
                   !.files = @ \ {s.audio_file},
                   !.audio_file = None]
    ELSE s

\* clear_prefetch_cache: remove every cached file, then clear the dict
clear_prefetch_cache(s) ==
    [s EXCEPT !.files = @ \ CacheFiles(s.prefetch_cache),
              !.prefetch_cache = <<>>,
              !.h_inserted = <<>>]

\* _evict_prefetch_cache: while over capacity pop the first key of the dict
\* and remove its file
\* an eviction that pops the last key of the dict
evict_newest(s) ==
    LET n == Len(s.prefetch_cache)
    IN  cleanup_file([s EXCEPT !.prefetch_cache = SubSeq(@, 1, n - 1),
                               !.h_inserted = SubSeq(@, 1, n - 1)],
                     s.prefetch_cache[n].file)

\* one turn of the loop: pop next(iter(cache)), remove its file
evict_one(s) ==
    cleanup_file([s EXCEPT !.prefetch_cache = Tail(@), !.h_inserted = Tail(@)],
                 Head(s.prefetch_cache).file)

RECURSIVE evict_prefetch_cache(_)
evict_prefetch_cache(s) ==
    IF Len(s.prefetch_cache) > prefetch_cache_max_size
    THEN evict_prefetch_cache(evict_one(s))
    ELSE s

\* self._prefetch_cache[text_hash] = audio_file: a new key goes last, a key
\* already present keeps its place and takes the new value
cache_store(s, key, f) ==
    IF InCache(s.prefetch_cache, key)
    THEN [s EXCEPT !.prefetch_cache[CacheIndex(s.prefetch_cache, key)].file = f]
    ELSE [s EXCEPT !.prefetch_cache = Append(@, [key |-> key, file |-> f]),
                   !.h_inserted = Append(@, IF @ = <<>> THEN 1 ELSE @[Len(@)] + 1)]

\* EdgeTTSEngine.stop
edge_stop(s) ==
    clear_prefetch_cache(cleanup_audio(
        [s EXCEPT !.stop_requested = TRUE,
                  !.generating = FALSE,
                  !.speaking = FALSE,
                  !.paused = FALSE,
                  !.mixer.playing = FALSE,
                  !.mixer.paused = FALSE]))

\* Pyttsx3Engine.stop
py_stop(s) ==
    [s EXCEPT !.speaking = FALSE, !.paused = FALSE, !.py_engine = None]

\* engine.stop()
stop(s) ==
    [(IF IsEdge(s) THEN edge_stop(s) ELSE py_stop(s)) EXCEPT !.h_stopped = TRUE]

Blank(text) == text = <<>> \/ strip(text) = <<>>

Live(w) == w.pc # "idle"

\* engine.speak(text): stop, then start a _speak_thread
speak(s, text) ==
    IF Blank(text) THEN s
    ELSE LET s1 == stop(s)
             ws == s1.workers
         IN  [s1 EXCEPT
                !.workers = Append([i \in DOMAIN ws |->
                                      IF Live(ws[i]) /\ ws[i].superseded = "no"
                                      THEN [ws[i] EXCEPT !.superseded = ws[i].pc]
                                      ELSE ws[i]],
                                   [IdleWorker EXCEPT !.pc = "start", !.text = text]),
                !.h_spoken = IF s1.h_spoken = Off THEN Off ELSE Append(@, text),
                !.h_stopped = FALSE]

\* EdgeTTSEngine.prefetch(text): start a _prefetch_thread unless cached
prefetch(s, text) ==
    IF Blank(text) THEN s
    ELSE IF InCache(s.prefetch_cache, get_text_hash(text)) THEN s
    ELSE [s EXCEPT !.prefetchers = Append(@, [pc |-> "gen", text |-> text, file |-> None])]

\* EdgeTTSEngine.pause / Pyttsx3Engine.pause
pause(s) ==
    IF IsEdge(s)
    THEN IF s.speaking /\ ~s.paused
         THEN [s EXCEPT !.mixer.paused = TRUE, !.paused = TRUE]
         ELSE s
    ELSE [s EXCEPT !.paused = TRUE]

\* EdgeTTSEngine.resume / Pyttsx3Engine.resume
resume(s) ==
    IF IsEdge(s)
    THEN IF s.paused
         THEN [s EXCEPT !.mixer.paused = FALSE, !.paused = FALSE]
         ELSE s
    ELSE [s EXCEPT !.paused = FALSE]

\* Python's max and min of two integers
max(a, b) == IF a >= b THEN a ELSE b

min(a, b) == IF a <= b THEN a ELSE b

\* a rate setter with no lower limit
set_rate_no_floor(s, value) ==
    LET r == min(MAX_RATE, value)
    IN  [s EXCEPT !.rate = r,
                  !.py_engine = IF ~IsEdge(s) /\ @ # None THEN <<r>> ELSE @,
                  !.settings_rate = r]

\* the rate setter of both engines: clamp, (pyttsx3: push to the driver), persist
set_rate(s, value) ==
    LET r == max(MIN_RATE, min(MAX_RATE, value))
    IN  [s EXCEPT !.rate = r,
                  !.py_engine = IF ~IsEdge(s) /\ @ # None THEN <<r>> ELSE @,
                  !.settings_rate = r]

\* EdgeTTSEngine.VOICES (the friendly names) and Pyttsx3Engine.VOICES
EDGE_VOICES == {"aria", "guy", "jenny", "christopher"}

PYTTSX3_VOICES == {"zira", "david"}

VOICES(s) == IF IsEdge(s) THEN EDGE_VOICES ELSE PYTTSX3_VOICES

\* the names handed to the voice setter, or found under "voice" in settings.json
VoiceInputs == EDGE_VOICES \cup PYTTSX3_VOICES \cup {"Aria", "DAVID", "bob", ""}

\* str.lower() on those names
lower(name) ==
    CASE name = "Aria" -> "aria"
      [] name = "DAVID" -> "david"
      [] OTHER -> name

\* __init__ of both engines: the saved voice, or the default when it is not in
\* the table of the engine
init_voice(kind, saved) ==
    IF kind = "edge"
    THEN IF saved \in EDGE_VOICES THEN saved ELSE "aria"
    ELSE IF saved \in PYTTSX3_VOICES THEN saved ELSE "zira"

\* get_engine(): the engine is picked by the saved voice when a table holds
\* it, by the saved engine type otherwise
get_engine_kind(saved_voice, engine_type) ==
    IF saved_voice \in EDGE_VOICES THEN "edge"
    ELSE IF saved_voice \in PYTTSX3_VOICES THEN "pyttsx3"
    ELSE engine_type

\* the voice_name setter: Pyttsx3Engine stores and persists the lowered name
\* and re-applies voice and rate to a live driver; EdgeTTSEngine stores and
\* persists a name of its table only
set_voice_name(s, name) ==
    IF IsEdge(s)
    THEN IF lower(name) \in EDGE_VOICES
         THEN [s EXCEPT !.voice_name = lower(name), !.settings_voice = lower(name)]
         ELSE s
    ELSE [s EXCEPT !.voice_name = lower(name),
                   !.settings_voice = lower(name),
                   !.py_engine = IF @ # None THEN <<s.rate>> ELSE @]

\* __init__ of the engine of the given kind: fresh fields, rate and voice from
\* the settings; EdgeTTSEngine deletes the herald_*.mp3 files left in temp/
new_engine(s, kind) ==
    [s EXCEPT !.engine_kind = kind,
              !.generating = FALSE, !.speaking = FALSE, !.paused = FALSE,
              !.stop_requested = FALSE, !.audio_file = None, !.file_counter = 0,
              !.prefetch_cache = <<>>, !.h_inserted = <<>>, !.py_engine = None,
              !.rate = s.settings_rate,
              !.voice_name = init_voice(kind, s.settings_voice),
              !.files = IF kind = "edge" THEN {} ELSE @]

\* switch_engine(engine_type): stop the engine, save the type, get_engine()
switch_engine(s, engine_type) ==
    new_engine(stop(s), get_engine_kind(s.settings_voice, engine_type))

----------------------------------------------------------------------------
(* tts_engine.py: the worker threads *)

\* _speak_thread, first statements (both engines)
w_start(s, w) ==
    IF IsEdge(s)
    THEN [s EXCEPT !.generating = TRUE, !.paused = FALSE, !.stop_requested = FALSE,
                   !.workers[w].pc = "cache"]
    ELSE [s EXCEPT !.speaking = TRUE, !.paused = FALSE,
                   !.workers[w].pc = "run"]

\* EdgeTTSEngine._speak_thread: look the text up in the prefetch cache
w_cache(s, w) ==
    LET key == get_text_hash(s.workers[w].text)
    IN  IF InCache(s.prefetch_cache, key)
        THEN LET i == CacheIndex(s.prefetch_cache, key)
                 f == s.prefetch_cache[i].file
                 s1 == [s EXCEPT !.prefetch_cache = Without(@, key),
                                 !.h_inserted = RemoveAt(@, i)]
             IN  IF f \in s1.files
                 THEN [s1 EXCEPT !.workers[w].file = f, !.workers[w].pc = "chk_stop"]
                 ELSE [s1 EXCEPT !.workers[w].pc = "gen"]
        ELSE [s EXCEPT !.workers[w].pc = "gen"]

\* baseline_wpm, and the limits of the modifier edge-tts accepts
baseline_wpm == 300
MIN_PERCENT == -50
MAX_PERCENT == 200

\* the quotient rounded down
floor_div3(x) == x \div 3

\* int(x / 3): the quotient rounded toward zero
int_div3(x) == IF x >= 0 THEN x \div 3 ELSE -((-x) \div 3)

\* max(-50, min(200, int((rate - baseline_wpm) / 3)))
edge_percent(r) ==
    LET percent == int_div3(r - baseline_wpm)
        capped == IF percent > MAX_PERCENT THEN MAX_PERCENT ELSE percent
    IN  IF capped < MIN_PERCENT THEN MIN_PERCENT ELSE capped

\* _rate_to_edge_modifier(): f"+{percent}%" if percent >= 0 else f"{percent}%"
rate_to_edge_modifier(s) ==
    LET percent == edge_percent(s.rate)
    IN  IF percent >= 0
        THEN "+" \o ToString(percent) \o "%"
        ELSE ToString(percent) \o "%"

\* edge-tts writes the file, writes an empty file, writes no file, or raises
\* after it opened the file
GenOutcomes == {"ok", "empty", "missing", "raise"}

\* a generation that is not checked for an empty file
w_generate_unchecked(s, w, outcome) ==
    LET n == s.file_counter + 1
        f == <<"herald", n>>
        s1 == [s EXCEPT !.file_counter = n, !.workers[w].generated = TRUE,
                        !.workers[w].rate = rate_to_edge_modifier(s)]
    IN  IF outcome = "ok"
        THEN [s1 EXCEPT !.files = @ \cup {f},
                        !.workers[w].file = f, !.workers[w].pc = "chk_stop"]
        ELSE IF outcome = "empty"
        THEN [s1 EXCEPT !.files = @ \cup {f}, !.workers[w].failed = f,
                        !.workers[w].file = f, !.workers[w].pc = "chk_stop"]
        ELSE IF outcome = "raise"
        THEN [s1 EXCEPT !.files = @ \cup {f}, !.workers[w].failed = f,
                        !.workers[w].pc = "error"]
        ELSE [s1 EXCEPT !.workers[w].failed = f, !.workers[w].pc = "error"]

\* EdgeTTSEngine._speak_thread: generate herald_<n>.mp3 and verify it; a
\* failure (empty file, no file, exception) leads to _speak_error
w_generate(s, w, outcome) ==
    LET n == s.file_counter + 1
        f == <<"herald", n>>
        s1 == [s EXCEPT !.file_counter = n, !.workers[w].generated = TRUE,
                        !.workers[w].rate = rate_to_edge_modifier(s)]
    IN  IF outcome = "ok"
        THEN [s1 EXCEPT !.files = @ \cup {f},
                        !.workers[w].file = f, !.workers[w].pc = "chk_stop"]
        ELSE IF outcome \in {"empty", "raise"}
        THEN [s1 EXCEPT !.files = @ \cup {f}, !.workers[w].failed = f,
                        !.workers[w].pc = "error"]
        ELSE [s1 EXCEPT !.workers[w].failed = f, !.workers[w].pc = "error"]

\* _speak_error(message): the pyttsx3 announcement, or the beep, or neither;
\* it raises nothing and changes no field of the engine
w_speak_error(s, w) ==
    [s EXCEPT !.workers[w].notices = @ + 1, !.workers[w].pc = "finally"]

\* if self._stop_requested: self._cleanup_file(audio_file); return
w_chk_stop(s, w) ==
    IF s.stop_requested
    THEN [cleanup_file(s, s.workers[w].file) EXCEPT !.workers[w].pc = "finally"]
    ELSE [s EXCEPT !.workers[w].pc = "set_play"]

\* self._audio_file = audio_file; _generating = False; _speaking = True
w_set_play(s, w) ==
    [s EXCEPT !.audio_file = s.workers[w].file,
              !.generating = FALSE,
              !.speaking = TRUE,
              !.workers[w].pc = "play"]

\* with self._mixer_lock: return when stopped, else load and play
\* self._audio_file (a missing file makes load raise)
w_play(s, w) ==
    IF s.stop_requested
    THEN [s EXCEPT !.workers[w].pc = "finally"]
    ELSE IF s.audio_file = None \/ s.audio_file \notin s.files
    THEN [s EXCEPT !.workers[w].pc = "error"]
    ELSE [s EXCEPT !.mixer = [loaded |-> s.audio_file, playing |-> TRUE, paused |-> FALSE],
                   !.workers[w].pc = "wait",
                   !.workers[w].stale_play = (s.workers[w].superseded # "no")]

\* pygame.mixer.music.get_busy()
get_busy(s) == s.mixer.playing /\ ~s.mixer.paused

\* the wait loop ends when the player is idle and not paused, or _speaking is off
wait_over(s) == (~get_busy(s) /\ ~s.paused) \/ ~s.speaking

w_wait(s, w) == [s EXCEPT !.workers[w].pc = "finally"]

\* Pyttsx3Engine._speak_thread: _get_engine(), say, runAndWait
w_run(s, w) ==
    [s EXCEPT !.py_engine = IF @ = None THEN <<s.rate>> ELSE @,
              !.workers[w].pc = "wait"]

\* finally: (both engines) clear the flags, (edge) _cleanup_audio; the thread ends
w_finally(s, w) ==
    IF IsEdge(s)
    THEN [cleanup_audio([s EXCEPT !.generating = FALSE, !.speaking = FALSE])
            EXCEPT !.workers[w] = IdleWorker]
    ELSE [s EXCEPT !.speaking = FALSE, !.workers[w] = IdleWorker]

\* playback reaches the end of the loaded file
mixer_finish(s) == [s EXCEPT !.mixer.playing = FALSE]

\* _prefetch_thread: generate herald_prefetch_<n>.mp3 and verify it
pf_generate(s, p, outcome) ==
    LET n == s.file_counter + 1
        f == <<"herald_prefetch", n>>
        s1 == [s EXCEPT !.file_counter = n]
    IN  IF outcome = "ok"
        THEN [s1 EXCEPT !.files = @ \cup {f},
                        !.prefetchers[p].file = f, !.prefetchers[p].pc = "store"]
        ELSE IF outcome = "empty"
        THEN [s1 EXCEPT !.files = @ \cup {f}, !.prefetchers = RemoveAt(@, p)]
        ELSE [s1 EXCEPT !.prefetchers = RemoveAt(@, p)]

\* _prefetch_thread: self._prefetch_cache[text_hash] = audio_file
pf_put(s, p) ==
    [cache_store(s, get_text_hash(s.prefetchers[p].text), s.prefetchers[p].file)
       EXCEPT !.prefetchers[p].pc = "evict"]

\* _prefetch_thread in _evict_prefetch_cache: one turn of the loop, or the
\* loop is over and the thread ends
pf_evict(s, p) ==
    IF Len(s.prefetch_cache) > prefetch_cache_max_size
    THEN evict_one(s)
    ELSE [s EXCEPT !.prefetchers = RemoveAt(@, p)]

\* _prefetch_thread from the store to its end
pf_store(s, p) ==
    [evict_prefetch_cache(pf_put(s, p)) EXCEPT !.prefetchers = RemoveAt(@, p)]

----------------------------------------------------------------------------
(* tts_engine.py: pygame.mixer.music and the _mixer_lock of each engine    *)

\* the calls of pygame.mixer.music the engine makes
PlayerCalls == {"load", "set_volume", "play", "get_busy", "stop", "pause",
                "unpause", "unload"}

\* the threads: one calling the methods of the engine, and the speak threads
MxThreads == {"caller", "w1", "w2"}
MxWorkers == {"w1", "w2"}

\* a thread that is not running: the engine its routine belongs to, the
\* statements left, and whether it is inside the player call at their head
MxIdle == [engine |-> 0, prog |-> <<>>, inside |-> FALSE]

\* the process starts with one EdgeTTSEngine (current: the number of the
\* engine _engine_instance holds, 0 for a Pyttsx3Engine; of each engine: the
\* thread that holds its _mixer_lock, _stop_requested, _speaking, _paused, and
\* whether _audio_file names a file)
NewMx ==
    [current |-> 1, engines |-> 1,
     owner |-> [e \in 1..(MaxEngines + 1) |-> None],
     stop_requested |-> [e \in 1..(MaxEngines + 1) |-> FALSE],
     speaking |-> [e \in 1..(MaxEngines + 1) |-> FALSE],
     paused |-> [e \in 1..(MaxEngines + 1) |-> FALSE],
     audio_file |-> [e \in 1..(MaxEngines + 1) |-> FALSE],
     th |-> [t \in MxThreads |-> MxIdle]]

\* a stop() that calls _cleanup_audio() inside its locked block
player_calls_nested(routine) ==
    CASE routine = "play"          -> <<"acquire", "if_stop_requested", "load", "set_volume",
                                        "play", "release">>
      [] routine = "busy"          -> <<"acquire", "get_busy", "release">>
      [] routine = "cleanup_audio" -> <<"acquire", "if_audio_file", "stop", "unload",
                                        "clear_audio_file", "release">>
      [] routine = "finally"       -> <<"finally_flags", "acquire", "if_audio_file", "stop",
                                        "unload", "clear_audio_file", "release">>
      [] routine = "stop"          -> <<"stop_flags", "acquire", "stop",
                                        "acquire", "if_audio_file", "stop", "unload",
                                        "clear_audio_file", "release", "release">>
      [] routine = "pause"         -> <<"acquire", "pause", "release", "set_paused">>
      [] routine = "resume"        -> <<"acquire", "unpause", "release", "clear_paused">>

\* the statements of a routine of EdgeTTSEngine that touch the lock, the
\* player and the fields above, in order: "with self._mixer_lock:" is
\* acquire ... release
player_calls(routine) ==
    CASE routine = "play"          -> <<"acquire", "if_stop_requested", "load", "set_volume",
                                        "play", "release">>
      [] routine = "busy"          -> <<"acquire", "get_busy", "release">>
      [] routine = "cleanup_audio" -> <<"acquire", "if_audio_file", "stop", "unload",
                                        "clear_audio_file", "release">>
      [] routine = "finally"       -> <<"finally_flags", "acquire", "if_audio_file", "stop",
                                        "unload", "clear_audio_file", "release">>
      [] routine = "stop"          -> <<"stop_flags", "acquire", "stop", "release",
                                        "acquire", "if_audio_file", "stop", "unload",
                                        "clear_audio_file", "release">>
      [] routine = "pause"         -> <<"acquire", "pause", "release", "set_paused">>
      [] routine = "resume"        -> <<"acquire", "unpause", "release", "clear_paused">>

\* _speak_thread: the flags are reset, the file is generated, the stop check,
\* _audio_file and _speaking, the play section, the first poll of the wait
\* loop, the loop
speak_thread_calls ==
    <<"start_flags", "return_if_stop_requested", "set_audio_file">>
        \o player_calls("play") \o player_calls("busy") \o <<"wait">>

\* thread t goes on with the rest of its statements
mx_pop(m, t) ==
    IF Len(m.th[t].prog) = 1
    THEN [m EXCEPT !.th[t] = MxIdle]
    ELSE [m EXCEPT !.th[t].prog = Tail(@)]

\* the statements from the next release on
RECURSIVE FromRelease(_)
FromRelease(prog) == IF Head(prog) = "release" THEN prog ELSE FromRelease(Tail(prog))

\* the statement at the head of thread t can be executed
mx_enabled(m, t) ==
    /\ m.th[t].prog # <<>>
    /\ Head(m.th[t].prog) = "acquire" => m.owner[m.th[t].engine] = None
    /\ Head(m.th[t].prog) = "start_thread" => \E w \in MxWorkers : m.th[w] = MxIdle

\* thread t executes the statement at its head; a player call is entered and
\* left in two steps; busy: what get_busy() returned to the wait loop
mx_step(m, t, busy) ==
    LET i == Head(m.th[t].prog)
        e == m.th[t].engine
    IN  CASE i = "acquire" -> mx_pop([m EXCEPT !.owner[e] = <<t>>], t)
          [] i = "release" -> mx_pop([m EXCEPT !.owner[e] = None], t)
          [] i \in PlayerCalls ->
                IF m.th[t].inside
                THEN mx_pop([m EXCEPT !.th[t].inside = FALSE], t)
                ELSE [m EXCEPT !.th[t].inside = TRUE]
          [] i = "stop_flags" ->
                mx_pop([m EXCEPT !.stop_requested[e] = TRUE, !.speaking[e] = FALSE,
                                 !.paused[e] = FALSE], t)
          [] i = "start_flags" ->
                mx_pop([m EXCEPT !.stop_requested[e] = FALSE, !.paused[e] = FALSE], t)
          [] i = "finally_flags" -> mx_pop([m EXCEPT !.speaking[e] = FALSE], t)
          [] i = "return_if_stop_requested" ->
                IF m.stop_requested[e]
                THEN [m EXCEPT !.th[t].prog = player_calls("finally")]
                ELSE mx_pop(m, t)
          [] i = "if_stop_requested" ->
                IF m.stop_requested[e]
                THEN [m EXCEPT !.th[t].prog = <<"release">> \o player_calls("finally")]
                ELSE mx_pop(m, t)
          [] i = "set_audio_file" ->
                mx_pop([m EXCEPT !.audio_file[e] = TRUE, !.speaking[e] = TRUE], t)
          [] i = "clear_audio_file" -> mx_pop([m EXCEPT !.audio_file[e] = FALSE], t)
          [] i = "if_audio_file" ->
                IF m.audio_file[e]
                THEN mx_pop(m, t)
                ELSE [m EXCEPT !.th[t].prog = FromRelease(@)]
          [] i = "set_paused" -> mx_pop([m EXCEPT !.paused[e] = TRUE], t)
          [] i = "clear_paused" -> mx_pop([m EXCEPT !.paused[e] = FALSE], t)
          [] i = "wait" ->
                [m EXCEPT !.th[t].prog =
                    IF (~busy /\ ~m.paused[e]) \/ ~m.speaking[e]
                    THEN player_calls("finally")
                    ELSE player_calls("busy") \o <<"wait">>]
          [] i = "start_thread" ->
                LET w == CHOOSE w \in MxWorkers : m.th[w] = MxIdle
                IN  mx_pop([m EXCEPT !.th[w] = [engine |-> e, prog |-> speak_thread_calls,
                                                inside |-> FALSE]], t)
          [] i = "new_edge" ->
                mx_pop([m EXCEPT !.engines = @ + 1, !.current = m.engines + 1], t)
          [] i = "new_pyttsx3" -> mx_pop([m EXCEPT !.current = 0], t)

\* stop(), pause() or resume() of the engine in use is called
mx_call(m, routine) ==
    IF \/ routine = "stop"
       \/ routine = "pause" /\ m.speaking[m.current] /\ ~m.paused[m.current]
       \/ routine = "resume" /\ m.paused[m.current]
    THEN [m EXCEPT !.th["caller"] = [engine |-> m.current,
                                     prog |-> player_calls(routine), inside |-> FALSE]]
    ELSE m

\* speak(text): self.stop(), then the thread is started
mx_speak(m) ==
    [m EXCEPT !.th["caller"] = [engine |-> m.current,
                                prog |-> player_calls("stop") \o <<"start_thread">>,
                                inside |-> FALSE]]

\* on_voice_change with a voice of the other engine: switch_engine(engine_type)
\* stops the engine in use, then get_engine() builds the new one
mx_switch_engine(m, engine_type) ==
    [m EXCEPT !.th["caller"] =
        [engine |-> m.current,
         prog |-> (IF m.current # 0 THEN player_calls("stop") ELSE <<>>)
                      \o <<IF engine_type = "edge" THEN "new_edge" ELSE "new_pyttsx3">>,
         inside |-> FALSE]]

----------------------------------------------------------------------------
(* tray_app.py: the flags of the TrayApp object and the icon it shows *)

\* TrayApp.__init__
NewTrayApp ==
    [is_speaking |-> FALSE, is_paused |-> FALSE, is_generating |-> FALSE,
     icon |-> "idle"]

\* _update_icon
update_icon(t) ==
    [t EXCEPT !.icon = IF t.is_paused THEN "paused"
                       ELSE IF t.is_speaking THEN "speaking"
                       ELSE IF t.is_generating THEN "generating"
                       ELSE "idle"]

\* if _tray_app: _tray_app.set_generating(generating)
set_generating(s, value) ==
    IF s.tray = None THEN s
    ELSE [s EXCEPT !.tray = <<update_icon([@[1] EXCEPT !.is_generating = value])>>]

\* if _tray_app: _tray_app.set_speaking(speaking)
set_speaking(s, value) ==
    IF s.tray = None THEN s
    ELSE [s EXCEPT !.tray = <<update_icon([@[1] EXCEPT !.is_speaking = value,
                                                      !.is_generating = FALSE])>>]

\* if _tray_app: _tray_app.set_paused(paused)
set_paused(s, value) ==
    IF s.tray = None THEN s
    ELSE [s EXCEPT !.tray = <<update_icon([@[1] EXCEPT !.is_paused = value])>>]

\* what _speak_continuous and _speak_current_line show before engine.speak()
show_start(s) == IF IsEdge(s) THEN set_generating(s, TRUE) ELSE set_speaking(s, TRUE)

\* update_tray_state: the tray section
reflect(s) ==
    IF s.tray = None THEN s
    ELSE IF s.generating THEN set_generating(s, TRUE)
    ELSE IF s.speaking THEN set_speaking(s, TRUE)
    ELSE IF s.paused THEN set_paused(s, TRUE)
    ELSE set_generating(set_paused(set_speaking(s, FALSE), FALSE), FALSE)

----------------------------------------------------------------------------
(* main.py *)

\* _clear_queue, first statement
clear_queue_1(s) == [s EXCEPT !.line_queue = <<>>]

\* _clear_queue, the rest
clear_queue_2(s) ==
    LET s1 == [s EXCEPT !.current_line_index = 0]
    IN  IF IsEdge(s1) THEN clear_prefetch_cache(s1) ELSE s1

clear_queue(s) == clear_queue_2(clear_queue_1(s))

QueueDone(s) == s.line_queue = <<>> \/ s.current_line_index >= Len(s.line_queue)

\* q[i] of a Python list: a negative index counts from the end
PyAt(q, i) == IF i >= 0 THEN q[i + 1] ELSE q[Len(q) + i + 1]

\* _speak_current_line below its first test: prefetch the next line, speak this one
speak_line(s) ==
    LET line == PyAt(s.line_queue, s.current_line_index)
        s0 == show_start(s)
        s1 == IF IsEdge(s0) /\ s0.current_line_index + 1 < Len(s0.line_queue)
              THEN prefetch(s0, PyAt(s0.line_queue, s0.current_line_index + 1))
              ELSE s0
    IN  speak(s1, line)

speak_current_line(s) == IF QueueDone(s) THEN clear_queue(s) ELSE speak_line(s)

\* _speak_continuous
speak_continuous(s, text) == speak(show_start(s), text)

\* on_speak_hotkey; get_content_to_speak returns the clipboard text
on_speak_hotkey(s) ==
    LET text == s.clipboard
    IN  IF text = <<>> THEN s
        ELSE IF s.read_mode = "continuous" THEN speak_continuous(s, text)
        ELSE LET lines == queue_lines(text)
             IN  IF lines = <<>> THEN s
                 ELSE speak_current_line([s EXCEPT !.line_queue = lines,
                                                   !.current_line_index = 0])

on_next_line(s) ==
    IF s.line_queue = <<>> THEN s
    ELSE LET s1 == stop(s)
         IN  IF s1.current_line_index < Len(s1.line_queue) - 1
             THEN speak_current_line([s1 EXCEPT !.current_line_index = @ + 1])
             ELSE set_speaking(clear_queue(s1), FALSE)

\* an on_prev_line that wraps around to the last line from the first
on_prev_line_wrap(s) ==
    IF s.line_queue = <<>> THEN s
    ELSE LET s1 == stop(s)
         IN  speak_current_line([s1 EXCEPT !.current_line_index =
                                    (@ - 1) % Len(s1.line_queue)])

on_prev_line(s) ==
    IF s.line_queue = <<>> THEN s
    ELSE LET s1 == stop(s)
         IN  IF s1.current_line_index > 0
             THEN speak_current_line([s1 EXCEPT !.current_line_index = @ - 1])
             ELSE speak_current_line(s1)

on_stop_hotkey(s) ==
    IF s.speaking \/ s.line_queue # <<>>
    THEN set_paused(set_speaking(clear_queue(stop(s)), FALSE), FALSE)
    ELSE s

on_pause_resume(s) ==
    IF s.paused THEN set_paused(resume(s), FALSE)
    ELSE IF s.speaking THEN set_paused(pause(s), TRUE)
    ELSE s

\* engine.is_speaking or engine.is_paused or engine.is_generating
is_active(s) == s.speaking \/ s.paused \/ s.generating

\* an update_tray_state that advances whenever the backend is inactive
update_tray_state_no_edge(s) ==
    LET active == is_active(s)
        s1 == IF ~active /\ s.line_queue # <<>>
              THEN LET s2 == [s EXCEPT !.current_line_index = @ + 1]
                   IN  IF s2.current_line_index < Len(s2.line_queue)
                       THEN speak_current_line(s2)
                       ELSE clear_queue(s2)
              ELSE s
    IN  reflect([s1 EXCEPT !.was_speaking = active])

\* update_tray_state: the auto-advance check, then the tray
update_tray_state(s) ==
    LET active == is_active(s)
        s1 == IF s.was_speaking /\ ~active /\ s.line_queue # <<>>
              THEN LET s2 == [s EXCEPT !.current_line_index = @ + 1]
                   IN  IF s2.current_line_index < Len(s2.line_queue)
                       THEN speak_current_line(s2)
                       ELSE clear_queue(s2)
              ELSE s
    IN  reflect([s1 EXCEPT !.was_speaking = active])

----------------------------------------------------------------------------
(* Threads *)

\* a _speak_thread blocks at the network call ("gen") and in the playback
\* wait loop ("wait")
Blocked(pc) == pc \in {"idle", "gen", "wait"}

\* the statement group at a position that is not a blocking one
w_step(s, w) ==
    CASE s.workers[w].pc = "start"    -> w_start(s, w)
      [] s.workers[w].pc = "cache"    -> w_cache(s, w)
      [] s.workers[w].pc = "chk_stop" -> w_chk_stop(s, w)
      [] s.workers[w].pc = "set_play" -> w_set_play(s, w)
      [] s.workers[w].pc = "play"     -> w_play(s, w)
      [] s.workers[w].pc = "run"      -> w_run(s, w)
      [] s.workers[w].pc = "error"    -> w_speak_error(s, w)
      [] s.workers[w].pc = "finally"  -> w_finally(s, w)

\* thread w runs on until it blocks or ends
RECURSIVE run_to_block(_, _)
run_to_block(s, w) ==
    IF Blocked(s.workers[w].pc) THEN s ELSE run_to_block(w_step(s, w), w)

\* the wait of thread w can end: the player is idle or the flag is off (edge),
\* runAndWait returns (pyttsx3)
CanLeaveWait(s, w) == s.workers[w].pc = "wait" /\ (IsEdge(s) => wait_over(s))

IdleThread == [pc |-> "idle", active |-> FALSE]

HandlersIdle == hk.pc = "idle" /\ tk.pc = "idle"

\* history: the worker a handler started had its text in the cache, with its
\* file, when the handler was entered
MarkPrefetched(s) ==
    IF Len(s.workers) > Len(workers)
    THEN LET key == get_text_hash(s.workers[Len(s.workers)].text)
         IN  [s EXCEPT !.workers[Len(s.workers)].prefetched =
                  /\ InCache(prefetch_cache, key)
                  /\ prefetch_cache[CacheIndex(prefetch_cache, key)].file \in files]
    ELSE s

----------------------------------------------------------------------------
(* text_filter.py: the line filter and normalize_for_speech.  A text is a   *)
(* sequence of characters; a character outside printable ASCII is named by  *)
(* its code point.                                                          *)

\* two of the glyphs of BOX_DRAWING_CHARS
BOX_DRAWING_CHARS == {"U+2500", "U+2502"}

ELLIPSIS == "U+2026"
ESC == "U+001B"
BACKTICK == "U+0060"

\* the letters and digits of the model
Lower == {"a", "b"}
Upper == {"A", "B"}
Digits == {"0", "1"}

\* str.isalpha()
isalpha(c) == c \in Lower \cup Upper

is_unspeakable(line) ==
    LET stripped == strip(line)
        box_char_count == Cardinality({i \in DOMAIN stripped : stripped[i] \in BOX_DRAWING_CHARS})
    IN  IF stripped = <<>> THEN TRUE
        ELSE IF box_char_count > 0 /\ 2 * box_char_count >= Len(stripped) THEN TRUE
        ELSE ~(\E i \in DOMAIN stripped : isalpha(stripped[i]))

\* a character class of a regular expression: a set of characters or, with
\* neg, its complement
Class(set) == [set |-> set, neg |-> FALSE]
NotClass(set) == [set |-> set, neg |-> TRUE]
Word == Class(Lower \cup Upper \cup Digits \cup {"_"})

InClass(s, i, cls) == i \in 1..Len(s) /\ ((s[i] \in cls.set) # cls.neg)

At(s, i, c) == i \in 1..Len(s) /\ s[i] = c

\* characters i .. i+n-1 of s are all c
Lit(s, i, c, n) == \A j \in i..(i + n - 1) : At(s, j, c)

\* the length of the longest run of characters of cls that starts at i (a
\* greedy cls*)
Run(s, i, cls) ==
    LET stops == {j \in i..Len(s) : ~InClass(s, j, cls)}
    IN  IF i > Len(s) THEN 0
        ELSE IF stops = {} THEN Len(s) - i + 1
        ELSE (CHOOSE j \in stops : \A k \in stops : j <= k) - i

\* the compiled patterns
ANSI_ESCAPE_PATTERN == [kind |-> "ansi"]
MARKDOWN_BOLD_PATTERN == [kind |-> "wrapped", d |-> "*", n |-> 2]
MARKDOWN_UNDERLINE_BOLD_PATTERN == [kind |-> "wrapped", d |-> "_", n |-> 2]
MARKDOWN_CODE_PATTERN == [kind |-> "wrapped", d |-> BACKTICK, n |-> 1]
MARKDOWN_STRIKE_PATTERN == [kind |-> "wrapped", d |-> "~", n |-> 2]
MARKDOWN_LINK_PATTERN == [kind |-> "link"]
REPEATED_DOTS_PATTERN == [kind |-> "repeated", c |-> ".", to |-> "."]
REPEATED_EXCLAIM_PATTERN == [kind |-> "repeated", c |-> "!", to |-> "!"]
REPEATED_QUESTION_PATTERN == [kind |-> "repeated", c |-> "?", to |-> "?"]
UNICODE_ELLIPSIS_PATTERN == [kind |-> "repeated1", c |-> ELLIPSIS, to |-> "."]
MULTIPLE_SPACES_PATTERN == [kind |-> "repeated", c |-> " ", to |-> " "]
HASHTAG_PATTERN == [kind |-> "sigil", c |-> "#"]
MENTION_PATTERN == [kind |-> "sigil", c |-> "@"]
SNAKE_PATTERN == [kind |-> "snake"]
CAMEL_PATTERN == [kind |-> "camel"]
ACRONYM_PATTERN == [kind |-> "acronym"]

\* where the match of pat that starts at character i of s ends, 0 when pat
\* does not match there (no pattern matches the empty string)
match_end(pat, s, i) ==
    CASE pat.kind = "ansi" ->
            \* \x1b\[[0-9;]*m
            LET k == Run(s, i + 2, Class(Digits \cup {";"}))
            IN  IF At(s, i, ESC) /\ At(s, i + 1, "[") /\ At(s, i + 2 + k, "m")
                THEN i + 2 + k ELSE 0
      [] pat.kind = "wrapped" ->
            \* d{n}([^d]+)d{n}
            LET k == Run(s, i + pat.n, NotClass({pat.d}))
            IN  IF Lit(s, i, pat.d, pat.n) /\ k >= 1 /\ Lit(s, i + pat.n + k, pat.d, pat.n)
                THEN i + 2 * pat.n + k - 1 ELSE 0
      [] pat.kind = "link" ->
            \* \[([^\]]+)\]\([^)]+\)
            LET k == Run(s, i + 1, NotClass({"]"}))
                m == Run(s, i + 3 + k, NotClass({")"}))
            IN  IF /\ At(s, i, "[") /\ k >= 1 /\ At(s, i + 1 + k, "]")
                   /\ At(s, i + 2 + k, "(") /\ m >= 1 /\ At(s, i + 3 + k + m, ")")
                THEN i + 3 + k + m ELSE 0
      [] pat.kind = "sigil" ->
            \* c(\w+)
            LET k == Run(s, i + 1, Word)
            IN  IF At(s, i, pat.c) /\ k >= 1 THEN i + k ELSE 0
      [] pat.kind = "snake" ->
            \* (\w)_(\w)
            IF InClass(s, i, Word) /\ At(s, i + 1, "_") /\ InClass(s, i + 2, Word)
            THEN i + 2 ELSE 0
      [] pat.kind = "camel" ->
            \* ([a-z])([A-Z])
            IF InClass(s, i, Class(Lower)) /\ InClass(s, i + 1, Class(Upper))
            THEN i + 1 ELSE 0
      [] pat.kind = "acronym" ->
            \* ([A-Z]+)([A-Z][a-z]): the run gives back its last capital
            LET k == Run(s, i, Class(Upper))
            IN  IF k >= 2 /\ InClass(s, i + k, Class(Lower)) THEN i + k ELSE 0
      [] pat.kind = "repeated" ->
            \* c{2,}
            LET k == Run(s, i, Class({pat.c}))
            IN  IF k >= 2 THEN i + k - 1 ELSE 0
      [] pat.kind = "repeated1" ->
            IF At(s, i, pat.c) THEN i ELSE 0

\* what replaces the match s[i..e]
replacement(pat, s, i, e) ==
    CASE pat.kind = "ansi" -> <<>>
      [] pat.kind = "wrapped" -> SubSeq(s, i + pat.n, e - pat.n)
      [] pat.kind = "link" -> SubSeq(s, i + 1, i + Run(s, i + 1, NotClass({"]"})))
      [] pat.kind = "sigil" -> SubSeq(s, i + 1, e)
      [] pat.kind = "snake" -> <<s[i], " ", s[e]>>
      [] pat.kind = "camel" -> <<s[i], " ", s[e]>>
      [] pat.kind = "acronym" -> SubSeq(s, i, e - 2) \o <<" ">> \o SubSeq(s, e - 1, e)
      [] pat.kind = "repeated" -> <<pat.to>>
      [] pat.kind = "repeated1" -> <<pat.to>>

\* pattern.sub: the leftmost matches that do not overlap, left to right
RECURSIVE sub_from(_, _, _)
sub_from(pat, s, i) ==
    IF i > Len(s) THEN <<>>
    ELSE LET e == match_end(pat, s, i)
         IN  IF e = 0 THEN <<s[i]>> \o sub_from(pat, s, i + 1)
             ELSE replacement(pat, s, i, e) \o sub_from(pat, s, e + 1)

re_sub(pat, s) == sub_from(pat, s, 1)

re_search(pat, s) == \E i \in 1..Len(s) : match_end(pat, s, i) # 0

\* while "_" in result and re.search(r"(\w)_(\w)", result): substitute again
RECURSIVE snake_loop(_)
snake_loop(result) ==
    IF (\E i \in DOMAIN result : result[i] = "_") /\ re_search(SNAKE_PATTERN, result)
    THEN snake_loop(re_sub(SNAKE_PATTERN, result))
    ELSE result

normalize_for_speech(text) ==
    IF text = <<>> THEN text
    ELSE LET r1 == re_sub(ANSI_ESCAPE_PATTERN, text)
             r2 == re_sub(MARKDOWN_BOLD_PATTERN, r1)
             r3 == re_sub(MARKDOWN_UNDERLINE_BOLD_PATTERN, r2)
             r4 == re_sub(MARKDOWN_CODE_PATTERN, r3)
             r5 == re_sub(MARKDOWN_STRIKE_PATTERN, r4)
             r6 == re_sub(MARKDOWN_LINK_PATTERN, r5)
             r7 == re_sub(HASHTAG_PATTERN, r6)
             r8 == re_sub(MENTION_PATTERN, r7)
             r9 == snake_loop(re_sub(SNAKE_PATTERN, r8))
             r10 == re_sub(CAMEL_PATTERN, r9)
             r11 == re_sub(ACRONYM_PATTERN, r10)
             r12 == re_sub(REPEATED_DOTS_PATTERN, r11)
             r13 == re_sub(REPEATED_EXCLAIM_PATTERN, r12)
             r14 == re_sub(REPEATED_QUESTION_PATTERN, r13)
             r15 == re_sub(UNICODE_ELLIPSIS_PATTERN, r14)
         IN  re_sub(MULTIPLE_SPACES_PATTERN, r15)

\* no text was given to normalize_for_speech yet
NoText == [text |-> <<>>, result |-> <<>>]

----------------------------------------------------------------------------
(* region_capture.py: the region picker *)

\* the selector script prints a rectangle of at least this many pixels each way
MIN_REGION_PX == 10

\* the picker process: the user drags from one point to another, presses
\* Escape, lets the 120 s timeout pass, or the process fails
Points == {<<0, 0>>, <<9, 9>>, <<19, 29>>}

Picks ==
    {[kind |-> "drag", from |-> a, to |-> b] : a \in Points, b \in Points}
        \cup {[kind |-> k] : k \in {"escape", "timeout", "error"}}

\* select_region(): the rectangle (x1, y1, x2, y2) or None
select_region(pick) ==
    IF pick.kind = "drag"
    THEN LET x1 == min(pick.from[1], pick.to[1])
             y1 == min(pick.from[2], pick.to[2])
             x2 == max(pick.from[1], pick.to[1])
             y2 == max(pick.from[2], pick.to[2])
         IN  IF (x2 - x1) >= MIN_REGION_PX /\ (y2 - y1) >= MIN_REGION_PX
             THEN <<x1, y1, x2, y2>>
             ELSE None
    ELSE None

----------------------------------------------------------------------------
(* persistent_region.py: PersistentRegion *)

\* OCR results shorter than this after strip() are skipped by the poll loop
MIN_OCR_LEN == 10

\* change_threshold is n / THRESHOLD_DEN for an integer n: 0, 0.5 (the default)
\* and 1 are exact in binary floating point, so that the code's float
\* comparison 1 - ratio >= change_threshold is the comparison of the exact
\* fractions
THRESHOLD_DEN == 2

Thresholds == 0..THRESHOLD_DEN

\* PersistentRegion.__init__.  Beside the fields of the object:
\*   threads   the _auto_read_loop threads ever started, in start order
\*   procs     the overlay processes ever started: rectangle, and told to quit
\*   dk        the caller's position inside deactivate()
\*   ret       the value the last toggle() / activate() returned
\*   calls     the texts on_text_detected was invoked with
\*   h_read    <<text, n>>: read_now() stored text, after the last start of
\*             auto-read, when on_text_detected had been invoked n times
\*   errors    the number of "Auto-read error" lines the poll threads logged
NewRegion(threshold, callback) ==
    [region |-> None, overlay_process |-> None,
     on_text_detected |-> callback, change_threshold |-> threshold,
     auto_read_enabled |-> FALSE, auto_read_thread |-> None,
     last_text |-> <<>>, stop_event |-> FALSE,
     threads |-> <<>>, procs |-> <<>>, dk |-> "idle", ret |-> None, calls |-> <<>>,
     h_read |-> None, errors |-> 0]

\* is_active
pr_is_active(p) == p.region # None /\ p.overlay_process # None

\* a thread object is alive until its loop returns
is_alive(p, t) == p.threads[t].pc # "done"

\* _start_overlay(): Popen succeeds or raises
start_overlay(p, popen_ok) ==
    IF p.region = None THEN p
    ELSE IF popen_ok
    THEN [p EXCEPT !.procs = Append(@, [rect |-> p.region, quit |-> FALSE]),
                   !.overlay_process = <<Len(p.procs) + 1>>]
    ELSE [p EXCEPT !.overlay_process = None]

\* _stop_overlay(): write "q", terminate (or kill), forget the process
stop_overlay(p) ==
    IF p.overlay_process # None
    THEN [p EXCEPT !.procs[p.overlay_process[1]].quit = TRUE,
                   !.overlay_process = None]
    ELSE p

\* _start_auto_read()
start_auto_read(p) ==
    IF p.auto_read_thread # None /\ is_alive(p, p.auto_read_thread[1]) THEN p
    ELSE [p EXCEPT !.stop_event = FALSE,
                   !.auto_read_enabled = TRUE,
                   !.last_text = <<>>,
                   !.h_read = None,
                   !.threads = Append(@, [pc |-> "loop", first_run |-> TRUE, polls |-> 0]),
                   !.auto_read_thread = <<Len(p.threads) + 1>>]

\* _stop_auto_read(): the join gives up after one second
stop_auto_read(p) ==
    [p EXCEPT !.auto_read_enabled = FALSE,
              !.stop_event = TRUE,
              !.auto_read_thread = None]

\* set_auto_read(enabled)
set_auto_read(p, enabled) ==
    IF enabled /\ ~p.auto_read_enabled THEN start_auto_read(p)
    ELSE IF ~enabled /\ p.auto_read_enabled THEN stop_auto_read(p)
    ELSE p

\* activate()
activate(p, pick, popen_ok) ==
    LET region == select_region(pick)
    IN  IF region = None
        THEN [p EXCEPT !.ret = <<FALSE>>]
        ELSE [start_overlay([p EXCEPT !.region = region], popen_ok)
                EXCEPT !.ret = <<TRUE>>]

\* deactivate(), statement by statement
deactivate_1(p) == stop_auto_read(p)

deactivate_2(p) == stop_overlay(p)

deactivate_3(p) == [p EXCEPT !.region = None]

deactivate_4(p) == [p EXCEPT !.last_text = <<>>]

\* deactivate()
deactivate(p) == deactivate_4(deactivate_3(deactivate_2(deactivate_1(p))))

\* toggle()
toggle(p, pick, popen_ok) ==
    IF pr_is_active(p)
    THEN [deactivate(p) EXCEPT !.ret = <<FALSE>>]
    ELSE activate(p, pick, popen_ok)

\* read_now(): capture() and ocr_image() each yield a value or nothing
read_now(p, grabbed, text) ==
    IF p.region = None THEN p
    ELSE IF ~grabbed THEN p
    ELSE IF text # <<>>
    THEN [p EXCEPT !.last_text = text, !.h_read = <<text, Len(p.calls)>>]
    ELSE p

\* difflib.SequenceMatcher: the length of the common run of a from i and b
\* from j, within a[..ahi] and b[..bhi]
RECURSIVE MatchLen(_, _, _, _, _, _)
MatchLen(a, b, i, j, ahi, bhi) ==
    IF i <= ahi /\ j <= bhi /\ a[i] = b[j]
    THEN 1 + MatchLen(a, b, i + 1, j + 1, ahi, bhi)
    ELSE 0

\* find_longest_match: the longest common block of a[alo..ahi] and b[blo..bhi],
\* the one earliest in a, then earliest in b: <<i, j, k>> (k = 0: none)
find_longest_match(a, b, alo, ahi, blo, bhi) ==
    LET len(i, j) == MatchLen(a, b, i, j, ahi, bhi)
        pairs == (alo..ahi) \X (blo..bhi)
        k == IF pairs = {} THEN 0
             ELSE CHOOSE n \in {len(q[1], q[2]) : q \in pairs} :
                      \A q \in pairs : len(q[1], q[2]) <= n
    IN  IF k = 0 THEN <<alo, blo, 0>>
        ELSE LET i == CHOOSE x \in alo..ahi :
                          /\ \E y \in blo..bhi : len(x, y) = k
                          /\ \A x2 \in alo..(x - 1) : \A y \in blo..bhi : len(x2, y) # k
                 j == CHOOSE y \in blo..bhi :
                          /\ len(i, y) = k
                          /\ \A y2 \in blo..(y - 1) : len(i, y2) # k
             IN  <<i, j, k>>

\* get_matching_blocks: the total size of the blocks found by taking the
\* longest match and recurring to its left and to its right
RECURSIVE matches(_, _, _, _, _, _)
matches(a, b, alo, ahi, blo, bhi) ==
    IF alo > ahi \/ blo > bhi THEN 0
    ELSE LET m == find_longest_match(a, b, alo, ahi, blo, bhi)
         IN  IF m[3] = 0 THEN 0
             ELSE m[3] + matches(a, b, alo, m[1] - 1, blo, m[2] - 1)
                       + matches(a, b, m[1] + m[3], ahi, m[2] + m[3], bhi)

\* a change test that wants more than the threshold
has_significant_change_strict(p, new_text) ==
    IF p.last_text = <<>> THEN TRUE
    ELSE LET T == Len(p.last_text) + Len(new_text)
             M == matches(p.last_text, new_text, 1, Len(p.last_text), 1, Len(new_text))
         IN  THRESHOLD_DEN * (T - 2 * M) > p.change_threshold * T

\* _has_significant_change(new_text): ratio() is 2 * M / T, and
\* 1 - 2M/T >= n/d is d * (T - 2M) >= n * T
has_significant_change(p, new_text) ==
    IF p.last_text = <<>> THEN TRUE
    ELSE LET T == Len(p.last_text) + Len(new_text)
             M == matches(p.last_text, new_text, 1, Len(p.last_text), 1, Len(new_text))
         IN  THRESHOLD_DEN * (T - 2 * M) >= p.change_threshold * T

\* text and len(text.strip()) >= 10
long_enough(text) == text # <<>> /\ Len(strip(text)) >= MIN_OCR_LEN

\* _auto_read_loop: the loop test, then capture(); the locals of a thread that
\* returned are dropped
poll_loop(p, t, grabbed) ==
    IF ~p.stop_event /\ pr_is_active(p)
    THEN IF p.region # None /\ grabbed
         THEN [p EXCEPT !.threads[t].pc = "ocr"]
         ELSE [p EXCEPT !.threads[t].pc = "wait"]
    ELSE [p EXCEPT !.threads[t] = [pc |-> "done", first_run |-> FALSE, polls |-> 0]]

\* a poll that trusts the snapshot alone
poll_ocr_no_first_run(p, t, text) ==
    IF long_enough(text)
    THEN IF has_significant_change(p, text)
         THEN [p EXCEPT !.last_text = text,
                        !.threads[t].first_run = FALSE,
                        !.threads[t].polls = 1,
                        !.threads[t].pc = "wait",
                        !.calls = IF p.on_text_detected THEN Append(@, text) ELSE @]
         ELSE [p EXCEPT !.threads[t].polls = 1, !.threads[t].pc = "wait"]
    ELSE [p EXCEPT !.threads[t].pc = "wait"]

\* _auto_read_loop: ocr_image() returns text (empty: nothing was read, or it
\* raised); the text is long enough or skipped, and read on the first run or
\* on a significant change.  polls: the thread has had a long enough text
poll_ocr(p, t, text) ==
    IF long_enough(text)
    THEN IF p.threads[t].first_run \/ has_significant_change(p, text)
         THEN [p EXCEPT !.last_text = text,
                        !.threads[t].first_run = FALSE,
                        !.threads[t].polls = 1,
                        !.threads[t].pc = "wait",
                        !.calls = IF p.on_text_detected THEN Append(@, text) ELSE @]
         ELSE [p EXCEPT !.threads[t].polls = 1, !.threads[t].pc = "wait"]
    ELSE [p EXCEPT !.threads[t].pc = "wait"]

\* an exception that nothing catches ends the thread
poll_uncaught(p, t) ==
    [p EXCEPT !.threads[t] = [pc |-> "done", first_run |-> FALSE, polls |-> 0]]

\* _auto_read_loop: except Exception as e: logger.error(...), then the wait
poll_except(p, t) ==
    [p EXCEPT !.errors = @ + 1, !.threads[t].pc = "wait"]

\* a sleep: nothing ends it before the interval is over
sleep_interrupted(p) == FALSE

\* self._stop_event.wait(timeout) returns at once when the event is set
wait_interrupted(p) == p.stop_event

\* _auto_read_loop: self._stop_event.wait(self.poll_interval) returns
poll_wait(p, t) == [p EXCEPT !.threads[t].pc = "loop"]

----------------------------------------------------------------------------
(* The orchestrator: handlers and the tick run to completion, every thread *)
(* runs from one blocking call to the next                                 *)

\* the raw text of the orchestrator specification: two lines (one queue in
\* line mode, one utterance in continuous mode)
QueueTexts == {<<"a", "\n", "a", "a">>}

\* a step to s that keeps the number of threads started within n
Step(s, n) == Len(s.workers) <= n /\ Apply(s)

\* auto-copy puts the selected text on the clipboard, then on_speak_hotkey runs
OnSpeakHotkey(text) ==
    /\ HandlersIdle
    /\ Step(on_speak_hotkey([St EXCEPT !.clipboard = text]), MaxSpeaks)

OnNextLine ==
    /\ HandlersIdle
    /\ Step(MarkPrefetched(on_next_line(St)), MaxSpeaks)

OnPrevLine ==
    /\ HandlersIdle
    /\ Step(on_prev_line(St), MaxSpeaks)

OnStopHotkey ==
    /\ HandlersIdle
    /\ Step(on_stop_hotkey(St), MaxSpeaks)

OnPauseResume ==
    /\ HandlersIdle
    /\ Step(on_pause_resume(St), MaxSpeaks)

Tick ==
    /\ HandlersIdle
    /\ Step(MarkPrefetched(update_tray_state(St)), MaxSpeaks)

\* thread w is scheduled: from its start, or when generation returns, or when
\* its wait ends
WorkerBegin(w) ==
    /\ workers[w].pc = "start"
    /\ Apply(run_to_block(St, w))

WorkerGenerated(w) ==
    /\ workers[w].pc = "gen"
    /\ Apply(run_to_block(w_generate(St, w, "ok"), w))

WorkerEnd(w) ==
    /\ CanLeaveWait(St, w)
    /\ Apply(run_to_block(w_wait(St, w), w))

\* a prefetch thread: generation returns, the file is stored
PrefetchRun(p) ==
    /\ prefetchers[p].pc = "gen"
    /\ Apply(pf_store(pf_generate(St, p, "ok"), p))

MixerFinish ==
    /\ get_busy(St)
    /\ Apply(mixer_finish(St))

InitCommon ==
    /\ line_queue = <<>>
    /\ current_line_index = 0
    /\ was_speaking = FALSE
    /\ generating = FALSE
    /\ speaking = FALSE
    /\ paused = FALSE
    /\ stop_requested = FALSE
    /\ audio_file = None
    /\ file_counter = 0
    /\ prefetch_cache = <<>>
    /\ py_engine = None
    /\ rate = DEFAULT_RATE
    /\ settings_rate = DEFAULT_RATE
    /\ files = {}
    /\ mixer = MixerIdle
    /\ workers = <<>>
    /\ prefetchers = <<>>
    /\ hk = IdleThread
    /\ tk = IdleThread
    /\ mx = NewMx
    /\ h_stopped = FALSE
    /\ h_inserted = <<>>
    /\ h_asked = <<>>

\* the engine was built with a saved voice of its own table; no
\* PersistentRegion is in use
InitSettled ==
    /\ voice_name = init_voice(engine_kind, "")
    /\ settings_voice = voice_name
    /\ pr = NewRegion(1, FALSE)
    /\ tf = NoText
    /\ tray = None

\* get_engine() picks the engine from the saved voice, main() loads the read mode
Init ==
    /\ InitCommon
    /\ engine_kind \in {"edge", "pyttsx3"}
    /\ read_mode \in {"lines", "continuous"}
    /\ clipboard = <<>>
    /\ h_spoken = Off
    /\ InitSettled

Next ==
    \/ \E text \in QueueTexts : OnSpeakHotkey(text)
    \/ OnNextLine
    \/ OnPrevLine
    \/ OnStopHotkey
    \/ OnPauseResume
    \/ Tick
    \/ \E w \in DOMAIN workers : WorkerBegin(w) \/ WorkerGenerated(w) \/ WorkerEnd(w)
    \/ \E p \in DOMAIN prefetchers : PrefetchRun(p)
    \/ MixerFinish

Spec == Init /\ [][Next]_vars

\* the same program once main() has built the TrayApp
InitTray ==
    /\ InitCommon
    /\ engine_kind \in {"edge", "pyttsx3"}
    /\ read_mode \in {"lines", "continuous"}
    /\ clipboard = <<>>
    /\ h_spoken = Off
    /\ voice_name = init_voice(engine_kind, "")
    /\ settings_voice = voice_name
    /\ pr = NewRegion(1, FALSE)
    /\ tf = NoText
    /\ tray = <<NewTrayApp>>

SpecTray == InitTray /\ [][Next]_vars

----------------------------------------------------------------------------
(* The hotkey thread alone: keys pressed faster than any generation or     *)
(* speech completes.  The clipboard holds one raw text.                    *)

KeySpeak ==
    /\ HandlersIdle
    /\ Step(on_speak_hotkey([St EXCEPT !.h_spoken = <<>>]), MaxKeySpeaks)

KeyNext ==
    /\ HandlersIdle
    /\ Step(on_next_line(St), MaxKeySpeaks)

KeyPrev ==
    /\ HandlersIdle
    /\ Step([on_prev_line(St) EXCEPT !.h_spoken = Off], MaxKeySpeaks)

KeyStop ==
    /\ HandlersIdle
    /\ Step([on_stop_hotkey(St) EXCEPT !.h_spoken = Off], MaxKeySpeaks)

InitKeys ==
    /\ InitCommon
    /\ engine_kind \in {"edge", "pyttsx3"}
    /\ read_mode = "lines"
    /\ clipboard \in RawTexts
    /\ h_spoken = <<>>
    /\ InitSettled

\* the thread of the latest speak() is scheduled; the threads of earlier
\* calls stay at their first statement here (SpecEngine interleaves them all)
KeyWorkerBegin ==
    /\ workers # <<>>
    /\ WorkerBegin(Len(workers))

NextKeys ==
    \/ KeySpeak
    \/ KeyNext
    \/ KeyPrev
    \/ KeyStop
    \/ KeyWorkerBegin

SpecKeys == InitKeys /\ [][NextKeys]_vars

----------------------------------------------------------------------------
(* The hotkey thread and the main thread, statement by statement.  A handler *)
(* runs on the hotkey thread (field "hk"), update_tray_state on the main     *)
(* thread (field "tk"); an engine call is one step.                          *)

\* thread t returns from _speak_current_line or _clear_queue to its caller
\* (_tray_app is None in the specifications of the two threads, and a handler
\* skips its calls of set_speaking and set_paused)
t_return(s, t) ==
    IF t = "hk" THEN [s EXCEPT !.hk = IdleThread] ELSE [s EXCEPT !.tk.pc = "tick_end"]

\* the statement of thread t at its position
t_step(s, t) ==
    CASE s[t].pc = "set_index"  -> [s EXCEPT !.current_line_index = 0, ![t].pc = "speak_line"]
      [] s[t].pc = "next_test"  -> IF s.current_line_index < Len(s.line_queue) - 1
                                   THEN [s EXCEPT ![t].pc = "next_inc"]
                                   ELSE [s EXCEPT ![t].pc = "clear_1"]
      [] s[t].pc = "next_inc"   -> [s EXCEPT !.current_line_index = @ + 1, ![t].pc = "speak_line"]
      [] s[t].pc = "prev_test"  -> IF s.current_line_index > 0
                                   THEN [s EXCEPT ![t].pc = "prev_dec"]
                                   ELSE [s EXCEPT ![t].pc = "speak_line"]
      [] s[t].pc = "prev_dec"   -> [s EXCEPT !.current_line_index = @ - 1, ![t].pc = "speak_line"]
      [] s[t].pc = "speak_line" -> IF QueueDone(s)
                                   THEN [s EXCEPT ![t].pc = "clear_1"]
                                   ELSE t_return(speak_line(s), t)
      [] s[t].pc = "clear_1"    -> [clear_queue_1(s) EXCEPT ![t].pc = "clear_2"]
      [] s[t].pc = "clear_2"    -> t_return(clear_queue_2(s), t)
      [] s[t].pc = "tick_inc"   -> [s EXCEPT !.current_line_index = @ + 1, ![t].pc = "tick_test"]
      [] s[t].pc = "tick_test"  -> IF s.current_line_index < Len(s.line_queue)
                                   THEN [s EXCEPT ![t].pc = "speak_line"]
                                   ELSE [s EXCEPT ![t].pc = "clear_1"]
      [] s[t].pc = "tick_end"   -> reflect([s EXCEPT !.was_speaking = s.tk.active,
                                                     !.tk = IdleThread])

\* on_speak_hotkey up to the assignment of _line_queue
hk_speak(s) ==
    LET text == s.clipboard
    IN  IF text = <<>> THEN s
        ELSE IF s.read_mode = "continuous" THEN speak_continuous(s, text)
        ELSE LET lines == queue_lines(text)
             IN  IF lines = <<>> THEN s
                 ELSE [s EXCEPT !.line_queue = lines, !.hk.pc = "set_index"]

\* on_next_line up to engine.stop()
hk_next(s) ==
    IF s.line_queue = <<>> THEN s ELSE [stop(s) EXCEPT !.hk.pc = "next_test"]

\* on_prev_line up to engine.stop()
hk_prev(s) ==
    IF s.line_queue = <<>> THEN s ELSE [stop(s) EXCEPT !.hk.pc = "prev_test"]

\* on_stop_hotkey up to engine.stop()
hk_stop(s) ==
    IF s.speaking \/ s.line_queue # <<>>
    THEN [stop(s) EXCEPT !.hk.pc = "clear_1"]
    ELSE s

\* update_tray_state up to its test
tk_enter(s) ==
    LET active == is_active(s)
    IN  IF s.was_speaking /\ ~active /\ s.line_queue # <<>>
        THEN [s EXCEPT !.tk = [pc |-> "tick_inc", active |-> active]]
        ELSE [s EXCEPT !.tk = [pc |-> "tick_end", active |-> active]]

RaceSpeak(text) ==
    /\ hk.pc = "idle"
    /\ Step(hk_speak([St EXCEPT !.clipboard = text]), MaxSpeaks)

RaceNext ==
    /\ hk.pc = "idle"
    /\ Step(hk_next(St), MaxSpeaks)

RacePrev ==
    /\ hk.pc = "idle"
    /\ Step(hk_prev(St), MaxSpeaks)

RaceStop ==
    /\ hk.pc = "idle"
    /\ Step(hk_stop(St), MaxSpeaks)

HotkeyStep ==
    /\ hk.pc # "idle"
    /\ Step(t_step(St, "hk"), MaxSpeaks)

TickEnter ==
    /\ tk.pc = "idle"
    /\ Apply(tk_enter(St))

TickStep ==
    /\ tk.pc # "idle"
    /\ Step(t_step(St, "tk"), MaxSpeaks)

InitRace ==
    /\ InitCommon
    /\ engine_kind \in {"edge", "pyttsx3"}
    /\ read_mode = "lines"
    /\ clipboard = <<>>
    /\ h_spoken = Off
    /\ InitSettled

NextRace ==
    \/ \E text \in QueueTexts : RaceSpeak(text)
    \/ RaceNext
    \/ RacePrev
    \/ RaceStop
    \/ HotkeyStep
    \/ TickEnter
    \/ TickStep
    \/ \E w \in DOMAIN workers : WorkerBegin(w) \/ WorkerGenerated(w) \/ WorkerEnd(w)
    \/ \E p \in DOMAIN prefetchers : PrefetchRun(p)
    \/ MixerFinish

SpecRace == InitRace /\ [][NextRace]_vars

----------------------------------------------------------------------------
(* The engine alone: its methods called in any order, every thread one     *)
(* statement group at a time.                                              *)

EngineTexts == {<<"a">>, <<"b">>}

CallSpeak(text) ==
    /\ Len(workers) < MaxSpeaks
    /\ Apply(speak(St, text))

CallStop ==
    /\ Apply(stop(St))

WorkerStep(w) ==
    /\ ~Blocked(workers[w].pc)
    /\ Apply(w_step(St, w))

WorkerGenerate(w, outcome) ==
    /\ workers[w].pc = "gen"
    /\ Apply(w_generate(St, w, outcome))

WorkerWaitEnds(w) ==
    /\ CanLeaveWait(St, w)
    /\ Apply(w_wait(St, w))

InitEngine ==
    /\ InitCommon
    /\ engine_kind \in {"edge", "pyttsx3"}
    /\ read_mode = "continuous"
    /\ clipboard = <<>>
    /\ h_spoken = Off
    /\ InitSettled

NextEngine ==
    \/ \E text \in EngineTexts : CallSpeak(text)
    \/ CallStop
    \/ OnPauseResume
    \/ \E w \in DOMAIN workers : WorkerStep(w)
    \/ \E w \in DOMAIN workers, outcome \in GenOutcomes : WorkerGenerate(w, outcome)
    \/ \E w \in DOMAIN workers : WorkerWaitEnds(w)
    \/ MixerFinish

SpecEngine == InitEngine /\ [][NextEngine]_vars

\* the Edge engine alone, every outcome of a generation, no pause
FailSpeak ==
    /\ Len(workers) < MaxFailSpeaks
    /\ Apply(speak(St, <<"a">>))

InitFailure ==
    /\ InitCommon
    /\ engine_kind = "edge"
    /\ read_mode = "continuous"
    /\ clipboard = <<>>
    /\ h_spoken = Off
    /\ InitSettled

NextFailure ==
    \/ FailSpeak
    \/ CallStop
    \/ \E w \in DOMAIN workers : WorkerStep(w)
    \/ \E w \in DOMAIN workers, outcome \in GenOutcomes : WorkerGenerate(w, outcome)
    \/ \E w \in DOMAIN workers : WorkerWaitEnds(w)
    \/ MixerFinish

SpecFailure == InitFailure /\ [][NextFailure]_vars

\* the Edge engine built with any saved rate, speaking
ModifierSpeak ==
    /\ Len(workers) < MaxModifierSpeaks
    /\ Apply(speak(St, <<"a">>))

InitModifier ==
    /\ line_queue = <<>>
    /\ current_line_index = 0
    /\ was_speaking = FALSE
    /\ generating = FALSE
    /\ speaking = FALSE
    /\ paused = FALSE
    /\ stop_requested = FALSE
    /\ audio_file = None
    /\ file_counter = 0
    /\ prefetch_cache = <<>>
    /\ py_engine = None
    /\ settings_rate \in MIN_RATE..MAX_RATE
    /\ rate = settings_rate
    /\ files = {}
    /\ mixer = MixerIdle
    /\ workers = <<>>
    /\ prefetchers = <<>>
    /\ hk = IdleThread
    /\ tk = IdleThread
    /\ mx = NewMx
    /\ h_stopped = FALSE
    /\ h_inserted = <<>>
    /\ h_asked = <<>>
    /\ engine_kind = "edge"
    /\ read_mode = "continuous"
    /\ clipboard = <<>>
    /\ h_spoken = Off
    /\ InitSettled

NextModifier ==
    \/ ModifierSpeak
    \/ \E w \in DOMAIN workers : WorkerStep(w)
    \/ \E w \in DOMAIN workers : WorkerGenerate(w, "ok")
    \/ \E w \in DOMAIN workers : WorkerWaitEnds(w)
    \/ MixerFinish

SpecModifier == InitModifier /\ [][NextModifier]_vars

\* the mixer lock: the methods of the engine called by one thread, the speak
\* threads, engines replaced by switch_engine
ApplyMx(m) == Apply([St EXCEPT !.mx = m])

MxCallerIdle == mx.th["caller"] = MxIdle

MxCall(routine) ==
    /\ MxCallerIdle
    /\ mx.current # 0
    /\ ApplyMx(mx_call(mx, routine))

MxSpeak ==
    /\ MxCallerIdle
    /\ mx.current # 0
    /\ ApplyMx(mx_speak(mx))

MxSwitchEngine(engine_type) ==
    /\ MxCallerIdle
    /\ engine_type = "edge" => mx.current = 0 /\ mx.engines < MaxEngines
    /\ engine_type = "pyttsx3" => mx.current # 0
    /\ ApplyMx(mx_switch_engine(mx, engine_type))

MxStep(t, busy) ==
    /\ mx_enabled(mx, t)
    /\ ApplyMx(mx_step(mx, t, busy))

NextMixerLock ==
    \/ \E routine \in {"stop", "pause", "resume"} : MxCall(routine)
    \/ MxSpeak
    \/ \E engine_type \in {"edge", "pyttsx3"} : MxSwitchEngine(engine_type)
    \/ \E t \in MxThreads, busy \in BOOLEAN : MxStep(t, busy)

SpecMixerLock == InitFailure /\ [][NextMixerLock]_vars

----------------------------------------------------------------------------
(* The methods of the engine called directly, in any order and state;      *)
(* every thread runs from one blocking call to the next                    *)

CallPause ==
    /\ Apply(pause(St))

CallResume ==
    /\ Apply(resume(St))

NextApi ==
    \/ \E text \in EngineTexts : CallSpeak(text)
    \/ CallStop
    \/ CallPause
    \/ CallResume
    \/ \E w \in DOMAIN workers : WorkerBegin(w)
    \/ \E w \in DOMAIN workers : WorkerGenerated(w)
    \/ \E w \in DOMAIN workers : WorkerEnd(w)
    \/ MixerFinish

SpecApi == InitEngine /\ [][NextApi]_vars

----------------------------------------------------------------------------
(* The voice: an engine built from any saved voice, names assigned to      *)
(* voice_name, the engine switched                                         *)

SetVoice(name) ==
    /\ Apply([set_voice_name(St, name) EXCEPT !.h_asked = <<name>>])

SwitchEngine(engine_type) ==
    /\ Apply([switch_engine(St, engine_type) EXCEPT !.h_asked = <<>>])

InitVoice ==
    /\ InitCommon
    /\ read_mode = "lines"
    /\ clipboard = <<>>
    /\ h_spoken = Off
    /\ pr = NewRegion(1, FALSE)
    /\ tf = NoText
    /\ tray = None
    /\ settings_voice \in VoiceInputs
    /\ \E engine_type \in {"edge", "pyttsx3"} :
           engine_kind = get_engine_kind(settings_voice, engine_type)
    /\ voice_name = init_voice(engine_kind, settings_voice)

NextVoice ==
    \/ \E name \in VoiceInputs : SetVoice(name)
    \/ \E engine_type \in {"edge", "pyttsx3"} : SwitchEngine(engine_type)

SpecVoice == InitVoice /\ [][NextVoice]_vars

----------------------------------------------------------------------------
(* The prefetch cache alone: prefetch() called for ever new texts, or again *)
(* for a text still being generated, and stop()                             *)

\* text number k
CacheText(k) == [i \in 1..k |-> "a"]

\* the numbers of the texts in the cache or being generated
TextsInUse ==
    {Len(prefetch_cache[i].key[2]) : i \in DOMAIN prefetch_cache}
        \cup {Len(prefetchers[p].text) : p \in DOMAIN prefetchers}

\* a text not in use: the next number
NewText == CacheText(1 + Cardinality({k \in 1..MaxFiles : \E j \in TextsInUse : k <= j}))

PendingTexts == {prefetchers[p].text : p \in DOMAIN prefetchers}

Warm == Len(prefetch_cache) >= WarmEntries

CachePrefetch(text) ==
    /\ Len(prefetchers) < (IF Warm THEN MaxPending ELSE 1)
    /\ file_counter + Len(prefetchers) < MaxFiles
    /\ Apply(prefetch(St, text))

CacheStop ==
    /\ Warm
    /\ Apply(stop(St))

PfGenerated(p) ==
    /\ prefetchers[p].pc = "gen"
    /\ Apply(pf_generate(St, p, "ok"))

PfPut(p) ==
    /\ prefetchers[p].pc = "store"
    /\ Apply(pf_put(St, p))

PfEvict(p) ==
    /\ prefetchers[p].pc = "evict"
    /\ Apply(pf_evict(St, p))

InitCache ==
    /\ InitCommon
    /\ engine_kind = "edge"
    /\ read_mode = "lines"
    /\ clipboard = <<>>
    /\ h_spoken = Off
    /\ InitSettled

NextCache ==
    \/ \E text \in {NewText} \cup PendingTexts : CachePrefetch(text)
    \/ \E p \in DOMAIN prefetchers : PfGenerated(p)
    \/ \E p \in DOMAIN prefetchers : PfPut(p)
    \/ \E p \in DOMAIN prefetchers : PfEvict(p)
    \/ CacheStop

SpecCache == InitCache /\ [][NextCache]_vars

----------------------------------------------------------------------------
(* The rate setter alone *)

RateInputs ==
    ((MIN_RATE - RateMargin)..(MIN_RATE + RateMargin))
        \cup ((MAX_RATE - RateMargin)..(MAX_RATE + RateMargin))
        \cup {DEFAULT_RATE - RATE_STEP, DEFAULT_RATE, DEFAULT_RATE + RATE_STEP}

\* engine.rate = value
SetRate(value) ==
    /\ Apply([set_rate(St, value) EXCEPT !.h_asked = <<value>>])

\* the engine as constructed, or Pyttsx3Engine after one utterance has ended:
\* the driver made by _get_engine is kept
InitRate ==
    /\ line_queue = <<>>
    /\ current_line_index = 0
    /\ was_speaking = FALSE
    /\ generating = FALSE
    /\ speaking = FALSE
    /\ paused = FALSE
    /\ stop_requested = FALSE
    /\ audio_file = None
    /\ file_counter = 0
    /\ prefetch_cache = <<>>
    /\ rate = DEFAULT_RATE
    /\ settings_rate = DEFAULT_RATE
    /\ files = {}
    /\ mixer = MixerIdle
    /\ prefetchers = <<>>
    /\ hk = IdleThread
    /\ tk = IdleThread
    /\ mx = NewMx
    /\ h_stopped = FALSE
    /\ h_inserted = <<>>
    /\ h_asked = <<>>
    /\ read_mode = "lines"
    /\ clipboard = <<>>
    /\ h_spoken = Off
    /\ \/ engine_kind \in {"edge", "pyttsx3"} /\ py_engine = None /\ workers = <<>>
       \/ engine_kind = "pyttsx3" /\ py_engine = <<DEFAULT_RATE>> /\ workers = <<IdleWorker>>
    /\ InitSettled

NextRate == \E value \in RateInputs : SetRate(value)

SpecRate == InitRate /\ [][NextRate]_vars

----------------------------------------------------------------------------
(* The persistent region.  The calls of the control thread run to           *)
(* completion, except deactivate(), which runs statement by statement; a    *)
(* poll thread runs from one blocking call (grab, OCR, wait) to the next.   *)

Rep(c, n) == [i \in 1..n |-> c]

\* what ocr_image() returns, a text it stripped or None: nothing, a text too
\* short, and two long enough texts that differ by 50 %
OcrTexts ==
    {<<>>, Rep("a", MIN_OCR_LEN - 1),
     Rep("a", MIN_OCR_LEN),
     Rep("a", MIN_OCR_LEN \div 2) \o Rep("b", MIN_OCR_LEN - MIN_OCR_LEN \div 2)}

ApplyPr(p) == Apply([St EXCEPT !.pr = p])

CallerIdle == pr.dk = "idle"

Activate(pick, popen_ok) ==
    /\ CallerIdle
    /\ Len(pr.procs) < MaxOverlays
    /\ ApplyPr(activate(pr, pick, popen_ok))

Toggle(pick, popen_ok) ==
    /\ CallerIdle
    /\ Len(pr.procs) < MaxOverlays
    /\ ApplyPr(toggle(pr, pick, popen_ok))

DeactivateStep ==
    \/ pr.dk = "idle" /\ ApplyPr([deactivate_1(pr) EXCEPT !.dk = "stop_overlay"])
    \/ pr.dk = "stop_overlay" /\ ApplyPr([deactivate_2(pr) EXCEPT !.dk = "region"])
    \/ pr.dk = "region" /\ ApplyPr([deactivate_3(pr) EXCEPT !.dk = "last_text"])
    \/ pr.dk = "last_text" /\ ApplyPr([deactivate_4(pr) EXCEPT !.dk = "return"])
    \/ pr.dk = "return" /\ ApplyPr([pr EXCEPT !.dk = "idle"])

ReadNow(grabbed, text) ==
    /\ CallerIdle
    /\ ApplyPr(read_now(pr, grabbed, text))

SetAutoRead(enabled) ==
    /\ CallerIdle
    /\ Len(pr.threads) < MaxRegionThreads
    /\ ApplyPr(set_auto_read(pr, enabled))

PollLoop(t, grabbed) ==
    /\ pr.threads[t].pc = "loop"
    /\ ApplyPr(poll_loop(pr, t, grabbed))

PollOcr(t, text) ==
    /\ pr.threads[t].pc = "ocr"
    /\ Len(pr.calls) < MaxPolls
    /\ ApplyPr(poll_ocr(pr, t, text))

PollWait(t) ==
    /\ pr.threads[t].pc = "wait"
    /\ ApplyPr(poll_wait(pr, t))

Deactivate ==
    /\ CallerIdle
    /\ ApplyPr(deactivate(pr))

InitTts ==
    /\ InitCommon
    /\ engine_kind = "edge"
    /\ read_mode = "lines"
    /\ clipboard = <<>>
    /\ h_spoken = Off
    /\ voice_name = init_voice(engine_kind, "")
    /\ settings_voice = voice_name
    /\ tray = None

\* a PersistentRegion built with the default threshold, with or without a
\* callback
InitRegion ==
    /\ InitTts
    /\ tf = NoText
    /\ pr \in {NewRegion(1, callback) : callback \in BOOLEAN}

\* the texts the region specification polls and reads
RegionTexts == {<<>>, Rep("a", MIN_OCR_LEN)}

NextRegion ==
    \/ \E pick \in Picks, popen_ok \in BOOLEAN : Activate(pick, popen_ok)
    \/ \E pick \in Picks, popen_ok \in BOOLEAN : Toggle(pick, popen_ok)
    \/ DeactivateStep
    \/ \E grabbed \in BOOLEAN, text \in RegionTexts : ReadNow(grabbed, text)
    \/ \E enabled \in BOOLEAN : SetAutoRead(enabled)
    \/ \E t \in DOMAIN pr.threads, grabbed \in BOOLEAN : PollLoop(t, grabbed)
    \/ \E t \in DOMAIN pr.threads, text \in RegionTexts : PollOcr(t, text)
    \/ \E t \in DOMAIN pr.threads : PollWait(t)

SpecRegion == InitRegion /\ [][NextRegion]_vars

----------------------------------------------------------------------------
(* The auto-read loop of a region that was activated: every threshold,     *)
(* every OCR result, auto-read switched on and off, deactivate()           *)

\* the rectangle and the overlay process of the activated region
ActiveRegion(threshold, callback) ==
    activate(NewRegion(threshold, callback),
             [kind |-> "drag", from |-> <<0, 0>>, to |-> <<19, 29>>], TRUE)

InitPoll ==
    /\ InitTts
    /\ tf = NoText
    /\ pr \in {ActiveRegion(threshold, callback) :
                   threshold \in Thresholds, callback \in BOOLEAN}

NextPoll ==
    \/ Deactivate
    \/ \E grabbed \in BOOLEAN, text \in OcrTexts : ReadNow(grabbed, text)
    \/ \E enabled \in BOOLEAN : SetAutoRead(enabled)
    \/ \E t \in DOMAIN pr.threads, grabbed \in BOOLEAN : PollLoop(t, grabbed)
    \/ \E t \in DOMAIN pr.threads, text \in OcrTexts : PollOcr(t, text)
    \/ \E t \in DOMAIN pr.threads : PollWait(t)

SpecPoll == InitPoll /\ [][NextPoll]_vars

\* the one poll thread of an activated region with auto-read on, read_now()
\* and deactivate()
InitChange ==
    /\ InitTts
    /\ tf = NoText
    /\ pr \in {set_auto_read(ActiveRegion(threshold, callback), TRUE) :
                   threshold \in Thresholds, callback \in BOOLEAN}

NextChange ==
    \/ Deactivate
    \/ \E grabbed \in BOOLEAN, text \in OcrTexts : ReadNow(grabbed, text)
    \/ \E t \in DOMAIN pr.threads, grabbed \in BOOLEAN : PollLoop(t, grabbed)
    \/ \E t \in DOMAIN pr.threads, text \in OcrTexts : PollOcr(t, text)
    \/ \E t \in DOMAIN pr.threads : PollWait(t)

SpecChange == InitChange /\ [][NextChange]_vars

\* set_auto_read(False)
AutoReadOff ==
    /\ CallerIdle
    /\ ApplyPr(set_auto_read(pr, FALSE))

\* the poll thread with exceptions: capture() raises, ocr_image() or the
\* change test raises, on_text_detected raises
CaptureRaises(t) ==
    /\ pr.threads[t].pc = "loop"
    /\ ~pr.stop_event /\ pr_is_active(pr)
    /\ pr.errors < MaxErrors
    /\ ApplyPr(poll_except(pr, t))

OcrRaises(t) ==
    /\ pr.threads[t].pc = "ocr"
    /\ pr.errors < MaxErrors
    /\ ApplyPr(poll_except(pr, t))

CallbackRaises(t, text) ==
    /\ pr.threads[t].pc = "ocr"
    /\ pr.errors < MaxErrors
    /\ Len(pr.calls) < MaxPolls
    /\ poll_ocr(pr, t, text).calls # pr.calls
    /\ ApplyPr(poll_except(poll_ocr(pr, t, text), t))

NextRaise ==
    \/ Deactivate
    \/ AutoReadOff
    \/ \E t \in DOMAIN pr.threads, grabbed \in BOOLEAN : PollLoop(t, grabbed)
    \/ \E t \in DOMAIN pr.threads, text \in OcrTexts : PollOcr(t, text)
    \/ \E t \in DOMAIN pr.threads : PollWait(t)
    \/ \E t \in DOMAIN pr.threads : CaptureRaises(t)
    \/ \E t \in DOMAIN pr.threads : OcrRaises(t)
    \/ \E t \in DOMAIN pr.threads, text \in OcrTexts : CallbackRaises(t, text)

SpecRaise == InitChange /\ [][NextRaise]_vars

\* the poll thread until it is stopped: the poll interval may last for ever,
\* every other step of the thread is taken in the end
PollOcrToEnd(t, text) ==
    /\ pr.threads[t].pc = "ocr"
    /\ pr.stop_event \/ Len(pr.calls) < MaxPolls
    /\ ApplyPr(poll_ocr(pr, t, text))

WaitElapsed(t) ==
    /\ pr.threads[t].pc = "wait"
    /\ ApplyPr(poll_wait(pr, t))

WaitInterrupted(t) ==
    /\ pr.threads[t].pc = "wait"
    /\ wait_interrupted(pr)
    /\ ApplyPr(poll_wait(pr, t))

PollThreadRuns ==
    \/ \E t \in DOMAIN pr.threads, grabbed \in BOOLEAN : PollLoop(t, grabbed)
    \/ \E t \in DOMAIN pr.threads, text \in OcrTexts : PollOcrToEnd(t, text)
    \/ \E t \in DOMAIN pr.threads : WaitInterrupted(t)

NextStop ==
    \/ Deactivate
    \/ AutoReadOff
    \/ PollThreadRuns
    \/ \E t \in DOMAIN pr.threads : WaitElapsed(t)

SpecStop == InitChange /\ [][NextStop]_vars /\ WF_vars(PollThreadRuns)

----------------------------------------------------------------------------
(* Line mode on texts with lines that cannot be spoken: the hotkeys of the  *)
(* hotkey thread on a clipboard of letters, dashes, box glyphs, line feeds  *)

FilterAlphabet == {"a", "-", "U+2500", "\n"}

RECURSIVE TextsOver(_, _)
TextsOver(alphabet, n) ==
    IF n = 0 THEN {<<>>}
    ELSE LET shorter == TextsOver(alphabet, n - 1)
         IN  shorter \cup {Append(t, c) : t \in {u \in shorter : Len(u) = n - 1}, c \in alphabet}

InitFilter ==
    /\ InitCommon
    /\ engine_kind \in {"edge", "pyttsx3"}
    /\ read_mode = "lines"
    /\ clipboard \in TextsOver(FilterAlphabet, MaxFilterLen)
    /\ h_spoken = <<>>
    /\ InitSettled

SpecFilter == InitFilter /\ [][NextKeys]_vars

----------------------------------------------------------------------------
(* normalize_for_speech applied to a text, then to its own result *)

NormAlphabet == {"a", "B", "*", "#", "_", ".", " "}

Normalize ==
    /\ Len(tf.result) < 2
    /\ Apply([St EXCEPT !.tf.result =
                 Append(@, normalize_for_speech(IF @ = <<>> THEN tf.text ELSE @[Len(@)]))])

InitNormalize ==
    /\ InitTts
    /\ pr = NewRegion(1, FALSE)
    /\ tf \in {[text |-> x, result |-> <<>>] : x \in TextsOver(NormAlphabet, MaxNormLen)}

NextNormalize == Normalize

SpecNormalize == InitNormalize /\ [][NextNormalize]_vars

----------------------------------------------------------------------------
(* Unattended reading: one start in line mode, then only the tick loop of   *)
(* main() and the threads of the engine, all scheduled fairly; every        *)
(* generation and every playback finishes                                   *)

AutoTexts == {<<"a">>, <<"a", "\n", "b">>, <<"a", "\n", "b", "\n", "a">>}

AutoStart(text) ==
    /\ clipboard = <<>>
    /\ Apply(on_speak_hotkey([St EXCEPT !.clipboard = text]))

AutoTick ==
    /\ Apply(MarkPrefetched(update_tray_state(St)))

WorkerRun ==
    \E w \in DOMAIN workers : WorkerBegin(w) \/ WorkerGenerated(w) \/ WorkerEnd(w)

PrefetcherRun ==
    \E p \in DOMAIN prefetchers : PrefetchRun(p)

InitAuto ==
    /\ InitCommon
    /\ engine_kind \in {"edge", "pyttsx3"}
    /\ read_mode = "lines"
    /\ clipboard = <<>>
    /\ h_spoken = Off
    /\ InitSettled

NextAuto ==
    \/ \E text \in AutoTexts : AutoStart(text)
    \/ AutoTick
    \/ WorkerRun
    \/ PrefetcherRun
    \/ MixerFinish

SpecAuto ==
    /\ InitAuto /\ [][NextAuto]_vars
    /\ WF_vars(AutoTick) /\ WF_vars(WorkerRun) /\ WF_vars(PrefetcherRun) /\ WF_vars(MixerFinish)

----------------------------------------------------------------------------
(* C1 *)

\* the positions of T that hold a character other than whitespace
InkAt(T) == {i \in 1..Len(T) : ~IsSpace(T[i])}

\* the number of line feeds before position i
LineOf(T, i) == Cardinality({j \in 1..(i - 1) : T[j] = "\n"})

\* line k of T from its first to its last non-whitespace character
TrimmedLine(T, k) ==
    LET P == {i \in InkAt(T) : LineOf(T, i) = k}
        lo == CHOOSE i \in P : \A j \in P : i <= j
        hi == CHOOSE i \in P : \A j \in P : j <= i
    IN  SubSeq(T, lo, hi)

\* the non-empty whitespace-trimmed lines of T, in order
TrimmedLinesOf(T) ==
    LET K == {LineOf(T, i) : i \in InkAt(T)}
    IN  [n \in 1..Cardinality(K) |->
            TrimmedLine(T, CHOOSE k \in K : Cardinality({m \in K : m < k}) = n - 1)]

\* the thread started by the step runs engine.speak(text) and has not run yet
Speaks(text) ==
    /\ Len(workers') = Len(workers) + 1
    /\ workers'[Len(workers')].text = text
    /\ workers'[Len(workers')].pc = "start"

\* the step left the backend stopped: no flag is up, the threads are told to stop
BackendStopped ==
    /\ ~generating' /\ ~speaking' /\ ~paused'
    /\ engine_kind = "edge" => stop_requested'

C1_Start ==
    KeySpeak /\ TrimmedLinesOf(clipboard) # <<>> =>
        /\ line_queue' = TrimmedLinesOf(clipboard)
        /\ current_line_index' = 0
        /\ Speaks(line_queue'[1])

C1_Next ==
    KeyNext /\ line_queue # <<>> =>
        /\ BackendStopped
        /\ IF current_line_index + 1 < Len(line_queue)
           THEN /\ line_queue' = line_queue
                /\ current_line_index' = current_line_index + 1
                /\ Speaks(line_queue[current_line_index + 2])
           ELSE /\ line_queue' = <<>>
                /\ current_line_index' = 0
                /\ workers' = workers

\* since the last start only next was pressed: the lines spoken are the queue
\* up to the cursor, and all of them once the queue is emptied
C1_Traversal ==
    h_spoken # Off /\ h_spoken # <<>> =>
        IF line_queue # <<>>
        THEN h_spoken = SubSeq(line_queue, 1, current_line_index + 1)
        ELSE h_spoken = TrimmedLinesOf(clipboard)

\* C1: start installs the non-empty trimmed lines of the raw text as the queue,
\* sets the cursor to 0 and speaks line 0; each skipNext that follows stops the
\* backend and speaks the next line, so that the lines are spoken once each and
\* in order, and the skipNext at the last line leaves an empty queue, cursor 0
C1_StartThenNextVisitsEveryLine ==
    [][C1_Start /\ C1_Next /\ C1_Traversal']_vars

\* a text with blanks to trim and two different lines was traversed to the end
C1_Witness ==
    /\ clipboard = <<" ", "b", "\n", "a">>
    /\ h_spoken = << <<"b">>, <<"a">> >>
    /\ line_queue = <<>>
    /\ current_line_index = 0

----------------------------------------------------------------------------
(* C2 *)

C2_PrevAtFirst ==
    KeyPrev /\ line_queue # <<>> /\ current_line_index = 0 =>
        /\ BackendStopped
        /\ line_queue' = line_queue
        /\ current_line_index' = 0
        /\ Speaks(line_queue[1])

C2_PrevLater ==
    KeyPrev /\ line_queue # <<>> /\ current_line_index > 0 =>
        /\ BackendStopped
        /\ line_queue' = line_queue
        /\ current_line_index' = current_line_index - 1
        /\ Speaks(line_queue[current_line_index])

C2_NextAtLast ==
    KeyNext /\ line_queue # <<>> /\ current_line_index = Len(line_queue) - 1 =>
        /\ line_queue' = <<>>
        /\ current_line_index' = 0
        /\ workers' = workers

\* with an empty queue both handlers return the state they were given
C2_EmptyQueue ==
    line_queue = <<>> => on_prev_line(St) = St /\ on_next_line(St) = St

\* C2: skipPrev at cursor 0 stops the backend, keeps the cursor at 0 and speaks
\* line 0 again; skipPrev at a cursor above 0 decrements it by one; skipNext at
\* the last line empties the queue and sets the cursor to 0; with an empty queue
\* both change nothing and do not stop the backend
C2_PrevAndNextAtTheEnds ==
    [][/\ C2_PrevAtFirst
       /\ C2_PrevLater
       /\ C2_NextAtLast
       /\ C2_EmptyQueue /\ C2_EmptyQueue']_vars

\* start, next, prev over the lines b, a: the third thread speaks b again
C2_Witness ==
    /\ line_queue = << <<"b">>, <<"a">> >>
    /\ current_line_index = 0
    /\ h_spoken = Off
    /\ Len(workers) = 3
    /\ workers[2].text = <<"a">>
    /\ workers[3].text = <<"b">>
    /\ workers[3].pc = "start"

----------------------------------------------------------------------------
(* C3 *)

\* C3: in every state of the line queue that a thread can observe, the cursor
\* is at least 0 and at most the length of the queue
C3_CursorWithinQueue ==
    0 <= current_line_index /\ current_line_index <= Len(line_queue)

----------------------------------------------------------------------------
(* C4 *)

\* the previous tick saw the backend active, this one sees it inactive, and
\* there is a queue
TickEdge == was_speaking /\ ~is_active(St) /\ line_queue # <<>>

C4_OnEdge ==
    Tick /\ TickEdge =>
        IF current_line_index + 1 < Len(line_queue)
        THEN /\ line_queue' = line_queue
             /\ current_line_index' = current_line_index + 1
             /\ Speaks(line_queue[current_line_index + 2])
        ELSE /\ line_queue' = <<>>
             /\ current_line_index' = 0
             /\ prefetch_cache' = <<>>
             /\ workers' = workers

C4_OffEdge ==
    Tick /\ ~TickEdge =>
        /\ line_queue' = line_queue
        /\ current_line_index' = current_line_index
        /\ workers' = workers

\* C4: a tick that finds the backend inactive after the previous tick found it
\* active, with a non-empty queue, advances the cursor by one and speaks the
\* line there, or clears the queue (empty, cursor 0, cache flushed) when no line
\* remains; any other tick leaves queue and cursor alone and speaks nothing
C4_TickAdvancesOnTheEdgeOnly ==
    [][C4_OnEdge /\ C4_OffEdge]_vars

\* the first line ended by itself and the second one is about to be spoken
C4_Witness ==
    /\ line_queue = << <<"a">>, <<"a", "a">> >>
    /\ current_line_index = 1
    /\ ~was_speaking
    /\ Len(workers) = 2
    /\ workers[1].pc = "idle" /\ workers[1].superseded = "no"
    /\ workers[2].pc = "start" /\ workers[2].text = <<"a", "a">>

----------------------------------------------------------------------------
(* C5 *)

\* the state on_stop_hotkey returns is stopped and cleared
StoppedAndCleared(s) ==
    /\ ~s.generating /\ ~s.speaking /\ ~s.paused
    /\ s.line_queue = <<>>
    /\ s.current_line_index = 0
    /\ s.prefetch_cache = <<>>

\* C5: from every state the stop handler leaves the backend stopped (not
\* generating, not speaking, not paused), the queue empty with cursor 0 and the
\* prefetch cache empty
C5_StopActsUnconditionally ==
    StoppedAndCleared(on_stop_hotkey(St))

----------------------------------------------------------------------------
(* C6 *)

\* C6: once stop() has returned and until speak() is called again the engine
\* is not generating, not speaking and not paused, and the audio file it held
\* is deleted
C6_StoppedUntilNextSpeak ==
    h_stopped =>
        /\ ~generating /\ ~speaking /\ ~paused
        /\ audio_file = None \/ audio_file \notin files

----------------------------------------------------------------------------
(* C7 *)

\* C7: a thread that was generating or playing when another speak() was called
\* never afterwards loads and plays its audio
C7_SupersededNeverPlays ==
    \A w \in DOMAIN workers :
        workers[w].superseded \notin {"no", "start"} => ~workers[w].stale_play

----------------------------------------------------------------------------
(* C8 *)

\* C8: a thread started for a line whose artifact was in the cache, with its
\* file, when the line became current plays that artifact and never runs
\* generation
C8_PrefetchIsConsumed ==
    \A w \in DOMAIN workers : workers[w].prefetched => ~workers[w].generated

----------------------------------------------------------------------------
(* C9 *)

\* no prefetch thread is between its store and the end of its eviction loop
InsertionsCompleted == \A p \in DOMAIN prefetchers : prefetchers[p].pc # "evict"

C9_Capacity ==
    InsertionsCompleted => Len(prefetch_cache) <= prefetch_cache_max_size

\* a turn of the eviction loop over capacity removes one entry, the one with
\* the earliest insertion
C9_EvictsEarliest ==
    (\E p \in DOMAIN prefetchers : PfEvict(p))
      /\ Len(prefetch_cache) > prefetch_cache_max_size =>
        \E i \in DOMAIN prefetch_cache :
            /\ \A j \in DOMAIN prefetch_cache : h_inserted[i] <= h_inserted[j]
            /\ prefetch_cache' = RemoveAt(prefetch_cache, i)

\* the file of an entry that left the cache does not exist
C9_RemovedFileDeleted ==
    \A i \in DOMAIN prefetch_cache :
        ~InCache(prefetch_cache', prefetch_cache[i].key) =>
            prefetch_cache[i].file \notin files'

\* C9: after completed insertions the cache holds at most 10 entries; an
\* insertion that takes it over capacity removes the entry inserted earliest;
\* the audio file of every removed entry is deleted
C9_CacheBoundedFifo ==
    [][C9_Capacity' /\ C9_EvictsEarliest /\ C9_RemovedFileDeleted]_vars

\* the eleventh text was stored and the first one evicted with its file
C9_Witness ==
    /\ Len(prefetch_cache) = prefetch_cache_max_size
    /\ prefetchers = <<>>
    /\ ~InCache(prefetch_cache, get_text_hash(CacheText(1)))
    /\ InCache(prefetch_cache, get_text_hash(CacheText(11)))
    /\ <<"herald_prefetch", 1>> \notin files

----------------------------------------------------------------------------
(* C10 *)

\* C10: after rate = v the engine holds MIN_RATE when v is below it, MAX_RATE
\* when v is above it, v otherwise, the settings store holds the same value,
\* and so does the pyttsx3 driver when there is one
C10_RateClampedAndSaved ==
    h_asked # <<>> =>
        LET v == h_asked[1]
        IN  /\ v < MIN_RATE => rate = MIN_RATE
            /\ v > MAX_RATE => rate = MAX_RATE
            /\ MIN_RATE <= v /\ v <= MAX_RATE => rate = v
            /\ settings_rate = rate
            /\ py_engine # None => py_engine = <<rate>>

\* a value below the minimum was assigned while the pyttsx3 driver existed
C10_Witness ==
    /\ h_asked = <<MIN_RATE - 1>>
    /\ rate = MIN_RATE
    /\ settings_rate = MIN_RATE
    /\ py_engine = <<MIN_RATE>>

----------------------------------------------------------------------------
(* C11 *)

\* thread t polls text, long enough, and no long enough text came to it before
FirstPoll(t, text) ==
    /\ pr.threads[t].pc = "ocr"
    /\ pr.threads[t].polls = 0
    /\ long_enough(text)
    /\ PollOcr(t, text)

\* C11: the first poll of a thread started by set_auto_read(True) that yields a
\* text of at least 10 characters stores the text as the snapshot and invokes
\* on_text_detected with it (when the object has a callback), whatever the
\* snapshot holds at that moment
C11_FirstPollFires ==
    [][\A t \in DOMAIN pr.threads : \A text \in OcrTexts :
           FirstPoll(t, text) =>
               /\ pr'.last_text = text
               /\ pr.on_text_detected => pr'.calls = Append(pr.calls, text)]_vars

\* auto-read was stopped and started again, read_now() then stored a text, and
\* the first poll of the new thread fired on the same text although the
\* threshold is 50 %
C11_Witness ==
    /\ pr.change_threshold = 1
    /\ Len(pr.threads) = 2
    /\ pr.threads[2].polls = 1
    /\ pr.h_read = <<Rep("a", MIN_OCR_LEN), 0>>
    /\ pr.calls = <<Rep("a", MIN_OCR_LEN)>>

----------------------------------------------------------------------------
(* C12 *)

\* C12: a poll of a thread that has fired before, with a text identical to
\* the snapshot, does not invoke on_text_detected, whatever the threshold
C12_IdenticalTextNeverFires ==
    [][\A t \in DOMAIN pr.threads : \A text \in OcrTexts :
           (/\ pr.threads[t].pc = "ocr"
            /\ ~pr.threads[t].first_run
            /\ long_enough(text)
            /\ text = pr.last_text
            /\ PollOcr(t, text))
               => pr'.calls = pr.calls]_vars

----------------------------------------------------------------------------
(* C13 *)

\* while a thread whose generation failed is alive it is on its way out
\* through _speak_error, and its file is neither loaded nor the current one
FailedIsNotPlayed ==
    \A w \in DOMAIN workers :
        workers[w].failed # None =>
            /\ workers[w].pc \in {"error", "finally"}
            /\ workers[w].file = None
            /\ mixer.loaded # workers[w].failed
            /\ audio_file # workers[w].failed

\* the thread of a failed generation ends
FailedEnds(w) ==
    /\ workers[w].failed # None
    /\ workers[w].pc = "finally"
    /\ WorkerStep(w)

\* C13: a thread of the Edge engine whose generation gave an empty file, no
\* file or an exception calls _speak_error exactly once, never loads or plays
\* the file, and ends through its finally clause (no exception leaves it) with
\* is_generating and is_speaking false
C13_GenerationFailureIsContained ==
    [][/\ FailedIsNotPlayed
       /\ \A w \in DOMAIN workers :
              FailedEnds(w) =>
                  /\ workers[w].notices = 1
                  /\ workers'[w] = IdleWorker
                  /\ ~generating' /\ ~speaking'
                  /\ mixer'.loaded # workers[w].failed]_vars

\* the generation of the first utterance wrote an empty file, the notice was
\* given, and the thread is about to end
C13_Witness ==
    /\ Len(workers) >= 1
    /\ workers[1].failed = <<"herald", 1>>
    /\ <<"herald", 1>> \in files
    /\ workers[1].notices = 1
    /\ workers[1].pc = "finally"

----------------------------------------------------------------------------
(* C14 *)

\* the three flags a caller can read
Flags(s) == <<s.speaking, s.paused, s.generating>>

\* C14: a pause() of a backend that is not speaking, or is paused already,
\* and a resume() of a backend that is not paused leave the three flags as
\* they are, and no step leaves a backend paused that is neither speaking nor
\* generating
C14_PauseResumeOnlyWhileSpeaking ==
    [][/\ CallPause /\ ~(speaking /\ ~paused) => Flags(pause(St)) = Flags(St)
       /\ CallResume /\ ~paused => Flags(resume(St)) = Flags(St)
       /\ paused' => speaking' \/ generating']_vars

----------------------------------------------------------------------------
(* C15 *)

\* C15: the voice of the engine is a name of the table of its own variant,
\* after construction and after every assignment; a name outside the table
\* assigned to the Edge engine changes neither its voice nor the saved voice
C15_VoiceIsOfTheTable ==
    [][/\ voice_name \in VOICES(St)
       /\ voice_name' \in VOICES([engine_kind |-> engine_kind'])
       /\ \A name \in VoiceInputs :
              SetVoice(name) /\ IsEdge(St) /\ lower(name) \notin EDGE_VOICES =>
                  voice_name' = voice_name /\ settings_voice' = settings_voice]_vars

----------------------------------------------------------------------------
(* C16 *)

\* what activate() must leave alone when the picker yields no region
RegionState(p) ==
    <<p.region, p.overlay_process, p.procs, p.auto_read_enabled,
      p.auto_read_thread, p.stop_event, p.threads, p.last_text>>

\* C16: activate() with a picker that yields no region (Escape, a selection
\* under 10 px, the timeout, a failure) returns False and changes nothing;
\* with a rectangle it stores the rectangle, starts an overlay process for
\* that rectangle, keeps it as overlay_process, and returns True
C16_ActivateStoresOrLeaves ==
    [][\A pick \in Picks, popen_ok \in BOOLEAN :
           Activate(pick, popen_ok) =>
               IF select_region(pick) = None
               THEN /\ pr'.ret = <<FALSE>>
                    /\ RegionState(pr') = RegionState(pr)
               ELSE /\ pr'.ret = <<TRUE>>
                    /\ pr'.region = select_region(pick)
                    /\ pr'.overlay_process = <<Len(pr.procs) + 1>>
                    /\ pr'.procs = Append(pr.procs, [rect |-> select_region(pick),
                                                     quit |-> FALSE])]_vars

----------------------------------------------------------------------------
(* C17 *)

\* the state deactivate() promises
Deactivated(p) ==
    /\ ~p.auto_read_enabled
    /\ p.stop_event
    /\ p.overlay_process = None
    /\ p.region = None
    /\ p.last_text = <<>>
    /\ ~pr_is_active(p)

\* what a caller can read of the object
Readable(p) ==
    <<p.region, p.overlay_process, p.auto_read_enabled, p.last_text, pr_is_active(p)>>

\* C17: when deactivate() returns, auto-read is off, the stop event is set,
\* the overlay process it found was told to quit and is forgotten, region and
\* snapshot are empty and the region is inactive; on an inactive region it
\* changes nothing a caller can read
C17_DeactivateClears ==
    [][/\ pr'.dk = "return" => Deactivated(pr')
       /\ pr.dk = "stop_overlay" /\ pr'.dk = "region" /\ pr.overlay_process # None =>
              pr'.procs[pr.overlay_process[1]].quit
       /\ pr.dk = "idle" /\ ~pr_is_active(pr) =>
              Readable(deactivate(pr)) = Readable(pr)]_vars

----------------------------------------------------------------------------
(* C18 *)

\* C18: toggle() returns True exactly when the region is active at its return,
\* and a True of activate() means the region is active
C18_TrueMeansActive ==
    [][\A pick \in Picks, popen_ok \in BOOLEAN :
           /\ Toggle(pick, popen_ok) => ((pr'.ret = <<TRUE>>) <=> pr_is_active(pr'))
           /\ Activate(pick, popen_ok) /\ pr'.ret = <<TRUE>> => pr_is_active(pr')]_vars

----------------------------------------------------------------------------
(* C19 *)

\* C19: in line mode no line that cannot be spoken (empty after trimming, half
\* or more box glyphs, no letter) is in the queue or was given to speak(), so
\* a text of such lines only leaves the queue empty and speaks nothing
C19_NoUnspeakableLineQueued ==
    /\ \A i \in DOMAIN line_queue : ~is_unspeakable(line_queue[i])
    /\ \A w \in DOMAIN workers : ~is_unspeakable(workers[w].text)

----------------------------------------------------------------------------
(* C20 *)

\* C20: normalize_for_speech is idempotent: applied to its own result it
\* returns that result
C20_NormalizeIdempotent ==
    Len(tf.result) = 2 => tf.result[2] = tf.result[1]

----------------------------------------------------------------------------
(* C21 *)

\* C21: after a start in line mode with no further input, under fair
\* scheduling of the tick loop and the threads, the queue eventually becomes
\* empty: the program does not stay for ever with lines left and an idle
\* backend
C21_AutoAdvanceCompletes ==
    (line_queue # <<>>) ~> (line_queue = <<>>)

----------------------------------------------------------------------------
(* C22 *)

\* C22: when stop() was called after the last speak() returned, the thread of
\* that speak() never starts playback: the reset of the flag at the start of
\* the thread does not erase the request
C22_StopIsNeverLost ==
    [][(engine_kind = "edge" /\ h_stopped /\ workers # <<>>) =>
           ~(/\ workers[Len(workers)].pc = "play"
             /\ workers'[Len(workers)].pc = "wait")]_vars

----------------------------------------------------------------------------
(* C24 *)

\* C24: whenever no speak thread and no prefetch thread is running, every
\* audio file that exists is the file of exactly one entry of the prefetch
\* cache
C24_NoFileLeftBehind ==
    ((\A w \in DOMAIN workers : workers[w].pc = "idle") /\ prefetchers = <<>>) =>
        \A f \in files :
            Cardinality({i \in DOMAIN prefetch_cache : prefetch_cache[i].file = f}) = 1

----------------------------------------------------------------------------
(* C29 *)

\* C29: switch_engine(t) leaves a fresh engine of exactly the variant t,
\* whatever voice is saved: nothing playing, no flag up, no cached audio
C29_SwitchGivesTheVariantAsked ==
    [][\A engine_type \in {"edge", "pyttsx3"} :
           SwitchEngine(engine_type) =>
               /\ engine_kind' = engine_type
               /\ ~generating' /\ ~speaking' /\ ~paused'
               /\ prefetch_cache' = <<>>
               /\ ~mixer'.playing]_vars

----------------------------------------------------------------------------
(* C25 *)

\* C25: for every rate r from MIN_RATE to MAX_RATE the modifier handed to
\* edge-tts is (r - 300) / 3 rounded toward zero and limited to -50..200:
\* "+0%" at 300, "+100%" at 600, "-50%" at MIN_RATE, "+200%" from 900 on, not
\* smaller than at the rate one below, and written with "+" exactly when it is
\* not negative
C25_RateModifier ==
    \A w \in DOMAIN workers :
        workers[w].rate # "" =>
            \E t \in -50..400 :
                /\ t * (rate - 300) >= 0
                /\ IF rate >= 300
                   THEN 3 * t <= rate - 300 /\ rate - 300 < 3 * t + 3
                   ELSE 3 * t >= rate - 300 /\ rate - 300 > 3 * t - 3
                /\ LET percent == IF t < -50 THEN -50 ELSE IF t > 200 THEN 200 ELSE t
                   IN  /\ workers[w].rate =
                              (IF percent >= 0 THEN "+" ELSE "") \o ToString(percent) \o "%"
                       /\ rate = 300 => workers[w].rate = "+0%"
                       /\ rate = 600 => workers[w].rate = "+100%"
                       /\ rate = MIN_RATE => workers[w].rate = "-50%"
                       /\ rate >= 900 => workers[w].rate = "+200%"
                       /\ \A slower \in {rate - 1} \cap (MIN_RATE..MAX_RATE) :
                              edge_percent(slower) <= percent

\* a generation ran at a rate just below the baseline, where the quotient is
\* negative and rounds up to zero
C25_Witness ==
    /\ rate = 299
    /\ \E w \in DOMAIN workers : workers[w].rate = "+0%" /\ workers[w].pc = "wait"

----------------------------------------------------------------------------
(* C26 *)

\* the region but for the position of thread t and its count of polls
Besides(p, t) == [p EXCEPT !.threads[t].pc = "loop", !.threads[t].polls = 0]

----------------------------------------------------------------------------
(* C27 *)

\* C27: once deactivate() or set_auto_read(False) has set the stop event the
\* poll thread ends, however long the poll interval is, and it starts no
\* capture any more: a thread at the head of the loop leaves it
C27_StopEndsThePollThread ==
    /\ (pr.stop_event /\ pr.threads[1].pc # "done") ~> (pr.threads[1].pc = "done")
    /\ [][\A t \in DOMAIN pr.threads :
              (pr.stop_event /\ pr.threads[t].pc = "loop" /\ pr'.threads[t].pc # "loop")
                  => pr'.threads[t].pc = "done"]_vars

\* set_auto_read(False) stopped the thread of a region that is still active
C27_Witness ==
    /\ pr.stop_event
    /\ pr_is_active(pr)
    /\ ~pr.auto_read_enabled
    /\ pr.threads[1].pc = "done"

----------------------------------------------------------------------------
(* C28 *)

\* C28: an exception raised by capture, OCR, the change test or the callback
\* in one iteration does not end the poll thread: the thread goes on to the
\* wait, and it ends only at the loop test, with the stop event set or the
\* region not active
C28_ExceptionDoesNotEndTheLoop ==
    [][\A t \in DOMAIN pr.threads :
           /\ (CaptureRaises(t) \/ OcrRaises(t)
                   \/ \E text \in OcrTexts : CallbackRaises(t, text))
                  => pr'.threads[t].pc = "wait"
           /\ (pr.threads[t].pc # "done" /\ pr'.threads[t].pc = "done")
                  => /\ pr.threads[t].pc = "loop"
                     /\ pr.stop_event \/ ~pr_is_active(pr)]_vars

\* two iterations raised, and the thread is polling again
C28_Witness ==
    /\ pr.errors = 2
    /\ ~pr.stop_event
    /\ pr_is_active(pr)
    /\ pr.threads[1].pc = "ocr"

----------------------------------------------------------------------------
(* C30 *)

\* the state of the backend: generating, else paused, else speaking, else idle
BackendState(s) ==
    IF s.generating THEN "generating"
    ELSE IF s.paused THEN "paused"
    ELSE IF s.speaking THEN "speaking"
    ELSE "idle"

\* C30: whenever update_tray_state runs, it leaves the tray showing the state
\* of the backend: generating whenever it generates, else paused when paused,
\* else speaking when speaking, idle when no flag is set
C30_TrayShowsTheBackend ==
    tray # None =>
        LET after == update_tray_state(St)
        IN  after.tray[1].icon = BackendState(after)

----------------------------------------------------------------------------
(* C23 *)

\* C23: a thread inside a call of the player (load, set_volume, play,
\* get_busy, stop, pause, unpause, unload) holds the mixer lock, and no two
\* threads are inside a call of the player at the same time
C23_PlayerCallsHoldTheMutex ==
    /\ \A t \in MxThreads :
           mx.th[t].inside => mx.owner[mx.th[t].engine] = <<t>>
    /\ Cardinality({t \in MxThreads : mx.th[t].inside}) <= 1

----------------------------------------------------------------------------
(* C31 *)

\* the window of a handler: after its stop() and before the thread that its
\* speak() starts has raised _generating (or set _is_speaking)
SkipWindow ==
    \/ hk.pc \in {"next_test", "next_inc"}
    \/ /\ workers # <<>>
       /\ workers[Len(workers)].pc = "start"

\* C31: update_tray_state never takes the window of a handler, in which the
\* engine is inactive between the stop() of on_next_line and the flag of the
\* new thread, as the end of a line: it does not advance the cursor in it
C31_TickIgnoresTheSkipWindow ==
    [][(tk.pc = "idle" /\ tk'.pc = "tick_inc") => ~SkipWindow]_vars

----------------------------------------------------------------------------
(* C32 *)

\* the positions of a _speak_thread after it has set its flag and before it
\* waits for the end of its playback
BeforeWait == {"cache", "gen", "chk_stop", "set_play", "play", "run"}

\* C32: while the thread of the last speak() is generating or playing and
\* stop() has not been called since, is_generating or is_speaking is true and
\* the audio it plays stays loaded and on disk: the end of the thread of an
\* earlier speak() (its finally block, its _cleanup_audio) touches neither
C32_SupersededEndLeavesTheNewOperation ==
    (workers # <<>> /\ ~h_stopped) =>
        LET b == workers[Len(workers)]
        IN  /\ b.pc \in BeforeWait => generating \/ speaking
            /\ (b.pc = "wait" /\ engine_kind = "pyttsx3") => speaking
            /\ (b.pc = "wait" /\ engine_kind = "edge") =>
                   /\ mixer.loaded = b.file
                   /\ b.file \in files
                   /\ mixer.playing => speaking

----------------------------------------------------------------------------
(* Line mode with the announcements: a queue is being read while the speed  *)
(* keys and the read-mode entry of the tray menu speak through the engine.  *)

FASTER == <<"F", "a", "s", "t", "e", "r">>

MAXIMUM_SPEED == <<"M", "a", "x", "i", "m", "u", "m", " ", "s", "p", "e", "e", "d">>

CONTINUOUS_ENABLED == <<"C", "o", "n", "t", "i", "n", "u", "o", "u", "s", " ",
                        "m", "o", "d", "e", " ", "e", "n", "a", "b", "l", "e", "d">>

LINE_BY_LINE_ENABLED == <<"L", "i", "n", "e", " ", "b", "y", " ", "l", "i", "n", "e", " ",
                          "m", "o", "d", "e", " ", "e", "n", "a", "b", "l", "e", "d">>

\* on_speed_up: raise the rate by one step and announce it
on_speed_up(s) ==
    LET s1 == set_rate(s, s.rate + RATE_STEP)
    IN  IF s1.rate >= MAX_RATE THEN speak(s1, MAXIMUM_SPEED) ELSE speak(s1, FASTER)

\* on_read_mode_change(mode): store the mode and announce it
on_read_mode_change(s, mode) ==
    LET s1 == [s EXCEPT !.read_mode = mode]
    IN  IF mode = "continuous" THEN speak(s1, CONTINUOUS_ENABLED)
        ELSE speak(s1, LINE_BY_LINE_ENABLED)

AnnounceSpeak(text) ==
    /\ HandlersIdle
    /\ Step(on_speak_hotkey([St EXCEPT !.clipboard = text]), MaxKeySpeaks)

OnSpeedUp ==
    /\ HandlersIdle
    /\ Step(on_speed_up(St), MaxKeySpeaks)

OnReadModeChange(mode) ==
    /\ HandlersIdle
    /\ Step(on_read_mode_change(St, mode), MaxKeySpeaks)

AnnounceTick ==
    /\ HandlersIdle
    /\ Step(update_tray_state(St), MaxKeySpeaks)

InitAnnounce ==
    /\ InitCommon
    /\ engine_kind \in {"edge", "pyttsx3"}
    /\ read_mode = "lines"
    /\ clipboard = <<>>
    /\ h_spoken = <<>>
    /\ InitSettled

NextAnnounce ==
    \/ \E text \in QueueTexts : AnnounceSpeak(text)
    \/ OnSpeedUp
    \/ \E mode \in {"lines", "continuous"} : OnReadModeChange(mode)
    \/ AnnounceTick
    \/ \E w \in DOMAIN workers : WorkerBegin(w) \/ WorkerGenerated(w) \/ WorkerEnd(w)
    \/ \E p \in DOMAIN prefetchers : PrefetchRun(p)
    \/ MixerFinish

SpecAnnounce == InitAnnounce /\ [][NextAnnounce]_vars

(* C33 *)

\* C33: while the queue is not empty, a tick that follows the end of an
\* utterance (the thread of the last speak() has ended) moves the cursor or
\* clears the queue only when that utterance was the current line of the
\* queue: the end of an announcement or of a continuous text moves nothing
C33_OnlyTheEndOfTheLineAdvances ==
    [][(/\ line_queue # <<>>
        /\ workers # <<>>
        /\ workers[Len(workers)].pc = "idle"
        /\ current_line_index' # current_line_index \/ line_queue' # line_queue
        /\ AnnounceTick)
       => /\ h_spoken # <<>>
          /\ current_line_index < Len(line_queue)
          /\ h_spoken[Len(h_spoken)] = line_queue[current_line_index + 1]]_vars

----------------------------------------------------------------------------
(* The region with the join of _stop_auto_read: set_auto_read, activate and *)
(* deactivate in any order, on a region that is active or not, while the    *)
(* poll thread runs from one blocking call to the next.                     *)

\* self._auto_read_thread.join(timeout=1) for the thread th that was stored:
\* a thread at its loop test or in the wait on the event sees the event and
\* returns within the second; a thread inside capture(), ocr_image() or the
\* callback can outlast the timeout
join_timeout(p, th) ==
    IF th # None /\ p.threads[th[1]].pc \in {"loop", "wait"}
    THEN [p EXCEPT !.threads[th[1]] = [pc |-> "done", first_run |-> FALSE, polls |-> 0]]
    ELSE p

JoinAutoReadOn ==
    /\ CallerIdle
    /\ Len(pr.threads) < MaxRegionThreads
    /\ ApplyPr(set_auto_read(pr, TRUE))

JoinAutoReadOff ==
    /\ CallerIdle
    /\ ApplyPr(IF pr.auto_read_enabled
               THEN join_timeout(set_auto_read(pr, FALSE), pr.auto_read_thread)
               ELSE pr)

JoinDeactivate ==
    /\ CallerIdle
    /\ ApplyPr(join_timeout(deactivate(pr), pr.auto_read_thread))

InitJoin ==
    /\ InitTts
    /\ tf = NoText
    /\ pr \in {NewRegion(1, callback) : callback \in BOOLEAN}
              \cup {ActiveRegion(1, callback) : callback \in BOOLEAN}

NextJoin ==
    \/ JoinAutoReadOn
    \/ JoinAutoReadOff
    \/ JoinDeactivate
    \/ \E pick \in Picks, popen_ok \in BOOLEAN : Activate(pick, popen_ok)
    \/ \E t \in DOMAIN pr.threads, grabbed \in BOOLEAN : PollLoop(t, grabbed)
    \/ \E t \in DOMAIN pr.threads, text \in RegionTexts : PollOcr(t, text)
    \/ \E t \in DOMAIN pr.threads : PollWait(t)

SpecJoin == InitJoin /\ [][NextJoin]_vars

(* C34 *)

\* the _auto_read_loop threads that have not returned
AliveThreads == {t \in DOMAIN pr.threads : is_alive(pr, t)}

\* C34: at most one _auto_read_loop thread of the region is alive, whatever
\* the order of set_auto_read, activate and deactivate, also when the join of
\* _stop_auto_read timed out on a thread inside capture, OCR or the callback
C34_OnePollThread ==
    Cardinality(AliveThreads) <= 1

----------------------------------------------------------------------------
(* C35 *)

\* C35: auto_read_enabled is True exactly when an _auto_read_loop thread of
\* the region is alive, whatever the order of set_auto_read, activate and
\* deactivate, also when auto-read was switched on before a region was active
C35_EnabledMeansPolling ==
    pr.auto_read_enabled <=> AliveThreads # {}

----------------------------------------------------------------------------
(* C36 *)

\* C36: once deactivate() or set_auto_read(False) has returned, and until
\* auto-read is started again, no poll thread invokes on_text_detected or
\* stores a text in _last_text, also not the thread that was inside capture
\* or OCR during the call
C36_StoppedThreadIsSilent ==
    [][\A t \in DOMAIN pr.threads, text \in RegionTexts :
           (/\ ~pr.auto_read_enabled
            /\ pr.stop_event
            /\ pr.threads[t].pc = "ocr"
            /\ PollOcr(t, text))
           => /\ pr'.calls = pr.calls
              /\ pr'.last_text = pr.last_text]_vars

----------------------------------------------------------------------------
(* The file counter: the speak threads and the prefetch threads of the Edge *)
(* engine, each statement that reads or writes _file_counter one step.      *)
(* No lock guards the counter; "self._file_counter += 1" is taken as one    *)
(* step here, the read of the counter in the next statement as another.     *)

\* _speak_thread: self._file_counter += 1
w_count(s, w) ==
    [s EXCEPT !.file_counter = @ + 1, !.workers[w].pc = "name"]

\* _speak_thread: audio_file = str(temp_dir / f"herald_{self._file_counter}.mp3")
w_name(s, w) ==
    [s EXCEPT !.workers[w].file = <<"herald", s.file_counter>>,
              !.workers[w].pc = "save"]

\* _speak_thread: communicate.save(audio_file), the file is there and not empty
w_save(s, w) ==
    [s EXCEPT !.files = @ \cup {s.workers[w].file},
              !.workers[w].generated = TRUE,
              !.workers[w].rate = rate_to_edge_modifier(s),
              !.workers[w].pc = "chk_stop"]

\* _prefetch_thread: self._file_counter += 1
pf_count(s, p) ==
    [s EXCEPT !.file_counter = @ + 1, !.prefetchers[p].pc = "name"]

\* _prefetch_thread: audio_file = str(temp_dir / f"herald_prefetch_{...}.mp3")
pf_name(s, p) ==
    [s EXCEPT !.prefetchers[p].file = <<"herald_prefetch", s.file_counter>>,
              !.prefetchers[p].pc = "save"]

\* _prefetch_thread: communicate.save(audio_file), the file is there and not empty
pf_save(s, p) ==
    [s EXCEPT !.files = @ \cup {s.prefetchers[p].file},
              !.prefetchers[p].pc = "store"]

CounterTexts == {<<"a">>, <<"b">>}

\* the generations started in this specification
MaxCounted == 3

Uncounted == Cardinality({w \in DOMAIN workers : workers[w].pc \in {"start", "cache", "gen"}})
                 + Cardinality({p \in DOMAIN prefetchers : prefetchers[p].pc = "gen"})

CounterSpeak(text) ==
    /\ Len(workers) < MaxModifierSpeaks
    /\ file_counter + Uncounted < MaxCounted
    /\ Apply(speak(St, text))

CounterPrefetch(text) ==
    /\ Len(prefetchers) < MaxPending
    /\ file_counter + Uncounted < MaxCounted
    /\ Apply(prefetch(St, text))

CounterWorkerStep(w) ==
    /\ workers[w].pc \notin {"name", "save"}
    /\ WorkerStep(w)

WCount(w) ==
    /\ workers[w].pc = "gen"
    /\ Apply(w_count(St, w))

WName(w) ==
    /\ workers[w].pc = "name"
    /\ Apply(w_name(St, w))

WSave(w) ==
    /\ workers[w].pc = "save"
    /\ Apply(w_save(St, w))

PfCount(p) ==
    /\ prefetchers[p].pc = "gen"
    /\ Apply(pf_count(St, p))

PfName(p) ==
    /\ prefetchers[p].pc = "name"
    /\ Apply(pf_name(St, p))

PfSave(p) ==
    /\ prefetchers[p].pc = "save"
    /\ Apply(pf_save(St, p))

PfStored(p) ==
    /\ prefetchers[p].pc = "store"
    /\ Apply(pf_store(St, p))

NextCounter ==
    \/ \E text \in CounterTexts : CounterSpeak(text)
    \/ \E text \in CounterTexts : CounterPrefetch(text)
    \/ \E w \in DOMAIN workers : CounterWorkerStep(w)
    \/ \E w \in DOMAIN workers : WCount(w)
    \/ \E w \in DOMAIN workers : WName(w)
    \/ \E w \in DOMAIN workers : WSave(w)
    \/ \E w \in DOMAIN workers : WorkerWaitEnds(w)
    \/ MixerFinish
    \/ \E p \in DOMAIN prefetchers : PfCount(p)
    \/ \E p \in DOMAIN prefetchers : PfName(p)
    \/ \E p \in DOMAIN prefetchers : PfSave(p)
    \/ \E p \in DOMAIN prefetchers : PfStored(p)

SpecCounter == InitCache /\ [][NextCounter]_vars

(* C37 *)

\* the paths of the generations under way: of the speak threads and of the
\* prefetch threads that have named their file and have not handed it on
WritingPaths ==
    SelectSeq([w \in DOMAIN workers |->
                   IF workers[w].pc = "save" THEN workers[w].file ELSE None],
              LAMBDA f : f # None)
    \o SelectSeq([p \in DOMAIN prefetchers |-> prefetchers[p].file],
                 LAMBDA f : f # None)

Distinct(q) == \A i, j \in DOMAIN q : i # j => q[i] # q[j]

\* C37: no two generations under way at the same time write to the same file
\* path, and no two keys of the prefetch cache hold the same file
C37_FileNamesAreUnique ==
    /\ Distinct(WritingPaths)
    /\ Distinct([i \in DOMAIN prefetch_cache |-> prefetch_cache[i].file])

----------------------------------------------------------------------------
(* C38 *)

\* the overlay processes the region started that were not told to quit and
\* terminated
RunningOverlays == {i \in DOMAIN pr.procs : ~pr.procs[i].quit}

\* C38: at most one overlay process of the region is running, and a running
\* one is the process overlay_process refers to, so that none is left after
\* deactivate(); whatever the order of activate, toggle and deactivate
C38_OneOverlayProcess ==
    /\ Cardinality(RunningOverlays) <= 1
    /\ \A i \in RunningOverlays : pr.overlay_process = <<i>>

----------------------------------------------------------------------------
(* One Edge engine and its mixer lock until every call has returned: the    *)
(* caller's stop(), pause(), resume() and speak(), the speak threads, a     *)
(* load that raises.  A thread that is not waiting for the lock runs on; a  *)
(* thread waiting for the lock gets it in the end, the holder releasing it  *)
(* before it sleeps (pygame.time.wait) or ends.                             *)

\* _speak_thread: load() raises inside the locked block: the error is logged
\* and announced, return leaves the block, then the finally block
mx_load_raises(m, t) ==
    [m EXCEPT !.th[t].inside = FALSE,
              !.th[t].prog = <<"release">> \o player_calls("finally")]

LockCall(routine) ==
    /\ MxCallerIdle
    /\ ApplyMx(mx_call(mx, routine))

\* speak(); the model has MxWorkers threads, one of them must have ended
LockSpeak ==
    /\ MxCallerIdle
    /\ \E w \in MxWorkers : mx.th[w] = MxIdle
    /\ ApplyMx(mx_speak(mx))

LoadRaises(t) ==
    /\ mx.th[t].prog # <<>>
    /\ Head(mx.th[t].prog) = "load"
    /\ mx.th[t].inside
    /\ ApplyMx(mx_load_raises(mx, t))

\* thread t takes its next step
ThreadRuns(t) ==
    \/ \E busy \in BOOLEAN : MxStep(t, busy)
    \/ LoadRaises(t)

NextLock ==
    \/ \E routine \in {"stop", "pause", "resume"} : LockCall(routine)
    \/ LockSpeak
    \/ \E t \in MxThreads : ThreadRuns(t)

SpecLock ==
    InitFailure /\ [][NextLock]_vars /\ \A t \in MxThreads : SF_vars(ThreadRuns(t))

(* C39 *)

\* thread t is at an acquire of the lock of its engine
AtAcquire(t) == mx.th[t].prog # <<>> /\ Head(mx.th[t].prog) = "acquire"

Holds(t) == \E e \in DOMAIN mx.owner : mx.owner[e] = <<t>>

\* C39: no thread of the Edge engine acquires the mixer lock while it holds
\* it (also not in the cleanup that follows an early return from the locked
\* block), every thread that holds the lock releases it, and every stop(),
\* pause(), resume() and speak() of the caller returns
C39_MixerLockIsDeadlockFree ==
    /\ [](\A t \in MxThreads : AtAcquire(t) => ~Holds(t))
    /\ \A t \in MxThreads : Holds(t) ~> ~Holds(t)
    /\ ~MxCallerIdle ~> MxCallerIdle

\* a speak thread found the stop request inside its locked block and is about
\* to leave the block for its cleanup, while stop() waits for the lock
C39_Witness ==
    \E w \in MxWorkers :
        /\ mx.th[w].prog = <<"release">> \o player_calls("finally")
        /\ mx.owner[mx.th[w].engine] = <<w>>
        /\ AtAcquire("caller")

----------------------------------------------------------------------------
(* config.py: settings.json, of which the keys "rate" and "voice" are kept  *)
(* (settings_rate, settings_voice).  set_setting is called on the hotkey    *)
(* thread for the rate and on the tray thread for the voice; each call      *)
(* loads the file, then changes its copy and saves it.  A save is one step. *)

\* load_settings(): the file exists and holds every key
load_settings(s) == [rate |-> s.settings_rate, voice |-> s.settings_voice]

\* save_settings(settings): the file is rewritten as a whole
save_settings(s, settings) ==
    [s EXCEPT !.settings_rate = settings.rate, !.settings_voice = settings.voice]

\* get_setting(key)
get_setting(s, key) == load_settings(s)[key]

\* set_setting(key, value) on thread t, one statement at a time: settings =
\* load_settings(), then settings[key] = value; save_settings(settings).  The
\* thread keeps key and value of the call it returned from
set_setting(s, t, key, value) ==
    IF s[t].pc = "idle"
    THEN [s EXCEPT ![t] = [pc |-> "loaded", active |-> FALSE, key |-> key,
                           value |-> value, settings |-> load_settings(s)]]
    ELSE [save_settings(s, [s[t].settings EXCEPT ![s[t].key] = s[t].value])
            EXCEPT ![t] = [pc |-> "idle", active |-> FALSE,
                           key |-> s[t].key, value |-> s[t].value]]

SettingThreads == {"hk", "tk"}

\* the values written: rates by the speed hotkeys, voices by the tray menu
SettingValues(t) ==
    IF t = "hk"
    THEN {DEFAULT_RATE - RATE_STEP, DEFAULT_RATE, DEFAULT_RATE + RATE_STEP}
    ELSE EDGE_VOICES

SettingKey(t) == IF t = "hk" THEN "rate" ELSE "voice"

SetSettingCalled(t, value) ==
    /\ St[t].pc = "idle"
    /\ Apply(set_setting(St, t, SettingKey(t), value))

SetSettingReturns(t) ==
    /\ St[t].pc = "loaded"
    /\ Apply(set_setting(St, t, St[t].key, St[t].value))

NextSettings ==
    \/ \E t \in SettingThreads : \E value \in SettingValues(t) : SetSettingCalled(t, value)
    \/ \E t \in SettingThreads : SetSettingReturns(t)

SpecSettings == InitFailure /\ [][NextSettings]_vars

(* C40 *)

\* thread t has returned from a set_setting
Returned(t) == St[t].pc = "idle" /\ "key" \in DOMAIN St[t]

\* C40: when the set_setting calls of the two threads, for different keys,
\* have returned, get_setting gives for each key the value last set; and the
\* get_setting that follows a set_setting(k, v) returns v
C40_SettingsWritesAreNotLost ==
    /\ (hk.pc = "idle" /\ tk.pc = "idle") =>
           \A t \in SettingThreads :
               Returned(t) => get_setting(St, St[t].key) = St[t].value
    /\ \A t \in SettingThreads :
           St[t].pc = "loaded" =>
               LET after == set_setting(St, t, St[t].key, St[t].value)
               IN  get_setting(after, St[t].key) = St[t].value

====
